---- MODULE Spec2Model ----
(***************************************************************************)
(* Forecast verification of DLWP (src/DLWP/model/verify.py): the builders  *)
(* of the verification trajectory (verification_from_series,               *)
(* verification_from_samples) and the error metrics (forecast_error,       *)
(* persistence_error, climo_error, monthly_climo_error), with the scoring   *)
(* of examples/validate.py that calls them.                                *)
(*                                                                         *)
(* Every function of verify.py is pure, so the state of the model is the   *)
(* arguments a caller holds, the last call made and what it returned.      *)
(* Times are whole hours.  A floating-point value is an integer or NaN;    *)
(* a mean is kept as the exact fraction sum/count that np.nanmean forms.   *)
(***************************************************************************)
EXTENDS Integers, Sequences, FiniteSets, TLC

VARIABLES
    ds,              \* verification_from_*: the validation Dataset
    all_ds,          \* verification_from_*: the optional larger Dataset
    forecast_steps,  \* verification_from_*: number of forward iterations
    dt,              \* verification_from_*: time step in hours
    forecast,        \* forecast_error: ndarray, forecast hour first
    valid,           \* forecast_error, persistence_error, climo_error
    predictors,      \* persistence_error: ndarray of predictor data
    n_fhour,         \* persistence_error, climo_error: number of steps
    da,              \* monthly_climo_error: DataArray of the state
    val_set,         \* monthly_climo_error: list of times to score
    time_series,     \* validate.py: the forecast, labelled
    verification,    \* validate.py: the verification, labelled
    store,           \* rollout: the times the Sample Store holds
    estimator,       \* rollout: the configuration of the estimator
    window,          \* rollout: the input window of each initialization time
    trajectory,      \* rollout: the Forecast Trajectory, one entry per step
    lead,            \* rollout: the lead steps done
    invoked,         \* rollout: the calls of the predictor, in order
    dates,           \* insolation: the caller's sequence of dates
    lat,             \* insolation: the caller's array of latitudes
    lon,             \* insolation: the caller's array of longitudes
    solar,           \* insolation: the scaling factor S
    sols,            \* insolation: what the calls so far returned
    n_sample,        \* train_test_split_ind: number of samples
    test_size,       \* train_test_split_ind: number of samples in test set
    targets,         \* delete_nan_samples: ndarray of target data
    threshold,       \* delete_nan_samples: None or a fraction [num, den]
    early,           \* EarlyStoppingMin: the fields of the callback
    model,           \* EarlyStoppingMin: stop_training and weights of the model
    logs_seen,       \* EarlyStoppingMin: the monitored value of each epoch
    time_steps,      \* predictors_to_time_series: number of time steps
    has_time_dim,    \* predictors_to_time_series: axis 1 is the time step
    use_first_step,  \* predictors_to_time_series: keep the first time step
    call,            \* the last call: function, method, axis
    result           \* what the last call returned or raised

vars == <<ds, all_ds, forecast_steps, dt, forecast, valid, predictors,
          n_fhour, da, val_set, time_series, verification,
          store, estimator, window, trajectory, lead, invoked,
          dates, lat, lon, solar, sols, n_sample, test_size,
          targets, threshold, early, model, logs_seen,
          time_steps, has_time_dim, use_first_step, call, result>>

verifVars == <<ds, all_ds, forecast_steps, dt>>
errorVars == <<forecast, valid, predictors, n_fhour, da, val_set>>
rolloutVars == <<store, estimator, window, trajectory, lead, invoked>>
scriptVars == <<time_series, verification, rolloutVars>>
insolationVars == <<dates, lat, lon, solar, sols>>
splitVars == <<n_sample, test_size>>
nanVars == <<targets, threshold>>
callbackVars == <<early, model, logs_seen>>
seriesVars == <<time_steps, has_time_dim, use_first_step>>
utilVars == <<insolationVars, splitVars, nanVars, callbackVars, seriesVars>>

(***************************************************************************)
(* Bounds of the model.                                                    *)
(***************************************************************************)
MaxHour == 4        \* sample times are hours 0..MaxHour
MaxDt == 2          \* dt is drawn from -1..MaxDt
MaxSteps == 2       \* forecast_steps is drawn from -1..MaxSteps
MaxLead == 2        \* a forecast holds 1..MaxLead forecast hours
MaxTime == 2        \* and 1..MaxTime initialization times
MaxVal == 1         \* with elements 0..MaxVal or NaN
MaxLen == 3         \* a series of observations holds 1..MaxLen times
MaxObs == 2         \* with elements 0..MaxObs or NaN
MaxYear == 1        \* a DataArray holds times of the years 0..MaxYear
MaxMonth == 1       \* in the first MaxMonth + 1 months of each
MaxChannel == 3     \* a sample holds the channels 1..MaxChannel
MaxSamples == 3     \* the Sample Store holds 1..MaxSamples samples
MaxWindow == 2      \* an input window holds 1..MaxWindow samples
MaxGrid == 2        \* lat and lon hold at most MaxGrid elements
MaxDates == 2       \* insolation is given 1..MaxDates dates
MaxSolar == 2       \* S is drawn from -1..MaxSolar
MaxCalls == 2       \* insolation is called at most MaxCalls times
MaxRows == 2        \* delete_nan_samples is given 1..MaxRows samples
MaxWidth == 2       \* of 1..MaxWidth elements each
MaxEpochs == 5      \* fit trains at most MaxEpochs epochs
MaxMinEpochs == 2   \* min_epochs is drawn from 0..MaxMinEpochs
MaxPatience == 2    \* patience from 0..MaxPatience
MaxDelta == 1       \* min_delta from 0..MaxDelta
MaxLoss == 2        \* and the monitored loss from 0..MaxLoss
MaxSeries == 4      \* predictors_to_time_series is given 1..MaxSeries samples
MaxTimeSteps == 3   \* of 1..MaxTimeSteps time steps
MaxFeatures == 3    \* of 1..MaxFeatures features each
MaxSample == 5      \* train_test_split_ind splits 0..MaxSample samples

(***************************************************************************)
(* Values.                                                                 *)
(***************************************************************************)
\* np.nan: a value outside the range any array of the model holds.
NaN == -1000

IsNaN(x) == x = NaN

Min(a, b) == IF a < b THEN a ELSE b

Max(a, b) == IF a > b THEN a ELSE b

\* The elements of a set of integers in ascending order.
RECURSIVE SortedSeq(_)
SortedSeq(S) ==
    IF S = {} THEN <<>>
    ELSE LET m == CHOOSE x \in S : \A y \in S : x <= y
         IN <<m>> \o SortedSeq(S \ {m})

Range(s) == {s[i] : i \in DOMAIN s}

(***************************************************************************)
(* Datasets.  One grid point and one channel: predictors and targets hold  *)
(* one value per sample; targets is the slice time_step = 0.               *)
(***************************************************************************)
\* all_ds=None
NoDataset ==
    [none |-> TRUE, sample |-> <<>>, predictors |-> <<>>, targets |-> <<>>]

\* Reindexing only moves values, so each stored value names the store k
\* (1: ds, 2: all_ds), the variable and the sample time t it is stored under.
PredictorAt(k, t) == 100 * k + 10 + t

TargetAt(k, t) == 100 * k + 50 + t

\* A Dataset with sample times S.
MakeDataset(S, k) ==
    LET s == SortedSeq(S)
    IN [none |-> FALSE,
        sample |-> s,
        predictors |-> [i \in 1..Len(s) |-> PredictorAt(k, s[i])],
        targets |-> [i \in 1..Len(s) |-> TargetAt(k, s[i])]]

\* The range with its stop included.
RECURSIVE ArangeClosed(_, _, _)
ArangeClosed(start, stop, step) ==
    IF start > stop THEN <<>>
    ELSE <<start>> \o ArangeClosed(start + step, stop, step)

\* np.arange(start, stop, step) for step >= 1
RECURSIVE Arange(_, _, _)
Arange(start, stop, step) ==
    IF start >= stop THEN <<>>
    ELSE <<start>> \o Arange(start + step, stop, step)

\* pd.date_range(start, end, freq): both ends included
RECURSIVE DateRange(_, _, _)
DateRange(start, end, freq) ==
    IF start > end THEN <<>>
    ELSE <<start>> \o DateRange(start + freq, end, freq)

\* reindex(..., method='ffill'): the last label at or before the request.
ReindexFfill(sample, values, times) ==
    [k \in 1..Len(times) |->
        IF \E j \in 1..Len(sample) : sample[j] <= times[k]
        THEN values[CHOOSE j \in 1..Len(sample) :
                        /\ sample[j] <= times[k]
                        /\ \A i \in 1..Len(sample) :
                              sample[i] <= times[k] => sample[i] <= sample[j]]
        ELSE NaN]

\* DataArray.reindex(sample=times, method=None) of the values stored under
\* the (unique) labels sample: exact match, NaN where the label is absent.
Reindex(sample, values, times) ==
    [k \in 1..Len(times) |->
        IF \E j \in 1..Len(sample) : sample[j] = times[k]
        THEN values[CHOOSE j \in 1..Len(sample) : sample[j] = times[k]]
        ELSE NaN]

Raised(kind) ==
    [raised |-> kind, f_hour |-> <<>>, time |-> <<>>, values |-> <<>>]

\* verification[:, d] = rows[d] for every d: the DataArray, or the error
\* numpy raises when a row of another length cannot be broadcast.
Verification(f_hour, time, steps, rows) ==
    IF \E d \in 1..Len(rows) : Len(rows[d]) # steps /\ Len(rows[d]) # 1
    THEN Raised("ValueError")
    ELSE [raised |-> "none",
          f_hour |-> f_hour,
          time |-> time,
          values |-> [f \in 1..steps |->
                        [d \in 1..Len(rows) |->
                            IF Len(rows[d]) = 1 THEN rows[d][1]
                            ELSE rows[d][f]]]]

\* raise ValueError("'forecast_steps' must be an integer >= 1")
StepsError == Raised("ValueError: 'forecast_steps' must be an integer >= 1")

\* raise ValueError("'dt' must be an integer >= 1")
DtError == Raised("ValueError: 'dt' must be an integer >= 1")

\* ds.predictors of a ds that is None
NoStoreError == Raised("AttributeError")

\* The request of verification_from_samples made of the predictors.
SeriesRequestFromDate(date, steps, step) ==
    DateRange(date, date + step * (steps - 1), step)

SeriesRequest(date, steps, step) ==
    DateRange(date + step, date + step * steps, step)

VerificationFromSeries(d_s, a_ds, steps, step) ==
    IF steps < 1 THEN StepsError
    ELSE IF step < 1 THEN DtError
    ELSE IF d_s.none THEN NoStoreError
    ELSE LET f_hour == Arange(step, step * steps + 1, step)
             valid_da == IF ~a_ds.none THEN a_ds ELSE d_s
             rows == [d \in 1..Len(d_s.sample) |->
                        Reindex(valid_da.sample, valid_da.predictors,
                                SeriesRequest(d_s.sample[d], steps, step))]
         IN Verification(f_hour, d_s.sample, steps, rows)

\* The request of verification_from_series made of the targets.
SamplesRequestFromNext(date, steps, step) ==
    DateRange(date + step, date + step * steps, step)

SamplesRequest(date, steps, step) ==
    DateRange(date, date + step * (steps - 1), step)

\* verification_from_samples reading the dimensions of ds before it
\* looks at forecast_steps and dt.
VerificationFromSamplesStoreFirst(d_s, a_ds, steps, step) ==
    IF d_s.none THEN NoStoreError
    ELSE IF steps < 1 THEN StepsError
    ELSE IF step < 1 THEN DtError
    ELSE LET f_hour == Arange(step, step * steps + 1, step)
             valid_da == IF ~a_ds.none THEN a_ds ELSE d_s
             rows == [d \in 1..Len(d_s.sample) |->
                        Reindex(valid_da.sample, valid_da.targets,
                                SamplesRequest(d_s.sample[d], steps, step))]
         IN Verification(f_hour, d_s.sample, steps, rows)

VerificationFromSamples(d_s, a_ds, steps, step) ==
    IF steps < 1 THEN StepsError
    ELSE IF step < 1 THEN DtError
    ELSE IF d_s.none THEN NoStoreError
    ELSE LET f_hour == Arange(step, step * steps + 1, step)
             valid_da == IF ~a_ds.none THEN a_ds ELSE d_s
             rows == [d \in 1..Len(d_s.sample) |->
                        Reindex(valid_da.sample, valid_da.targets,
                                SamplesRequest(d_s.sample[d], steps, step))]
         IN Verification(f_hour, d_s.sample, steps, rows)

(***************************************************************************)
(* ndarrays: a shape and the elements in row-major order.  Indices count   *)
(* from 0 as in numpy; the sequence data counts from 1.                    *)
(***************************************************************************)
Rank(a) == Len(a.shape)

RECURSIVE Size(_)
Size(shape) == IF shape = <<>> THEN 1 ELSE shape[1] * Size(Tail(shape))

\* The position in data (from 0) of the element at index idx.
RECURSIVE Ravel(_, _)
Ravel(idx, shape) ==
    IF idx = <<>> THEN 0
    ELSE idx[1] * Size(Tail(shape)) + Ravel(Tail(idx), Tail(shape))

\* The index of the element at position k (from 0) of data.
RECURSIVE Unravel(_, _)
Unravel(k, shape) ==
    IF shape = <<>> THEN <<>>
    ELSE <<k \div Size(Tail(shape))>>
         \o Unravel(k % Size(Tail(shape)), Tail(shape))

\* Arithmetic of floats: NaN in, NaN out.
Sub(a, b) == IF IsNaN(a) \/ IsNaN(b) THEN NaN ELSE a - b

Square(x) == IF IsNaN(x) THEN NaN ELSE x * x

Abs(x) == IF IsNaN(x) THEN NaN ELSE IF x < 0 THEN -x ELSE x

\* Two lengths of one axis paired up to the shorter, as zip does.
BroadcastDimTruncating(m, n) ==
    IF m = n THEN m ELSE IF m = 1 THEN n ELSE IF n = 1 THEN m ELSE Min(m, n)

\* numpy's broadcast of two lengths of one axis; -1 when they do not agree.
BroadcastDim(m, n) ==
    IF m = n THEN m ELSE IF m = 1 THEN n ELSE IF n = 1 THEN m ELSE -1

Broadcastable(s1, s2) ==
    /\ Len(s1) = Len(s2)
    /\ \A j \in 1..Len(s1) : BroadcastDim(s1[j], s2[j]) >= 0

BroadcastShape(s1, s2) == [j \in 1..Len(s1) |-> BroadcastDim(s1[j], s2[j])]

\* The element of a that numpy pairs with index idx of the broadcast shape.
BroadcastAt(a, idx) ==
    a.data[Ravel([j \in 1..Len(idx) |->
                    IF a.shape[j] = 1 THEN 0 ELSE idx[j]], a.shape) + 1]

\* a - b for two ndarrays of one rank with broadcastable shapes
Subtract(a, b) ==
    LET shape == BroadcastShape(a.shape, b.shape)
    IN [shape |-> shape,
        data |-> [k \in 1..Size(shape) |->
                    Sub(BroadcastAt(a, Unravel(k - 1, shape)),
                        BroadcastAt(b, Unravel(k - 1, shape)))]]

\* a[f + 1:]: the series shifted by one step more.
SliceFromNext(a, f) ==
    LET n == a.shape[1]
    IN [shape |-> <<Max(n - f - 1, 0)>>, data |-> SubSeq(a.data, f + 2, n)]

\* a[f:] of a 1-d array, f >= 0
SliceFrom(a, f) ==
    LET n == a.shape[1]
    IN [shape |-> <<Max(n - f, 0)>>, data |-> SubSeq(a.data, f + 1, n)]

\* a[:k] of a 1-d array: a negative k counts from the end
SliceTo(a, k) ==
    LET n == a.shape[1]
        m == IF k >= 0 THEN Min(k, n) ELSE Max(n + k, 0)
    IN [shape |-> <<m>>, data |-> SubSeq(a.data, 1, m)]

\* a[f] of a 2-d array: its row f
Row(a, f) ==
    [shape |-> <<a.shape[2]>>,
     data |-> SubSeq(a.data, f * a.shape[2] + 1, (f + 1) * a.shape[2])]

\* np.repeat(a[None, ...], n, axis=0) of a 1-d array
RepeatRows(a, n) ==
    [shape |-> <<n, a.shape[1]>>,
     data |-> [k \in 1..(n * a.shape[1]) |->
                 a.data[((k - 1) % a.shape[1]) + 1]]]

(***************************************************************************)
(* Means.  np.nanmean divides the sum of the elements that are not NaN by  *)
(* their count; the model keeps the fraction num/den, 0/0 being NaN, and   *)
(* root says that the value is the square root of the fraction.            *)
(***************************************************************************)
RECURSIVE SumSeq(_)
SumSeq(s) == IF s = <<>> THEN 0 ELSE Head(s) + SumSeq(Tail(s))

NotNaN(x) == ~IsNaN(x)

\* np.mean of the elements s: NaN as soon as one element is NaN
PlainMean(s) ==
    IF \E i \in 1..Len(s) : IsNaN(s[i])
    THEN [num |-> 0, den |-> 0, root |-> FALSE]
    ELSE [num |-> SumSeq(s), den |-> Len(s), root |-> FALSE]

\* np.nanmean of the elements s, all of them reduced to one number
NanMean(s) ==
    [num |-> SumSeq(SelectSeq(s, NotNaN)),
     den |-> Len(SelectSeq(s, NotNaN)),
     root |-> FALSE]

IsNaNMean(m) == m.den = 0

\* np.sqrt of a mean
Sqrt(m) == IF IsNaNMean(m) THEN m ELSE [m EXCEPT !.root = TRUE]

\* The axes 0..r-1 named by the axis argument (an int or a tuple of ints).
Axis(S) == [none |-> FALSE, axes |-> S]

AxisNone == [none |-> TRUE, axes |-> {}]

ValidAxis(axis, r) == axis.none \/ axis.axes \subseteq 0..(r - 1)

\* The axes (from 1) that np.nanmean(a, axis) keeps, in order.
KeptAxes(axis, r) ==
    IF axis.none THEN <<>>
    ELSE SortedSeq({j \in 1..r : (j - 1) \notin axis.axes})

\* np.nanmean(a, axis=axis), for an axis argument valid for a: one mean for
\* each index of the axes kept, over the elements that share that index.
NanMeanAxes(a, axis) ==
    LET kept == KeptAxes(axis, Rank(a))
        shape == [i \in 1..Len(kept) |-> a.shape[kept[i]]]
        cells(oi) == SortedSeq({c \in 1..Size(a.shape) :
                        \A i \in 1..Len(kept) :
                            Unravel(c - 1, a.shape)[kept[i]] = oi[i]})
        elements(oi) == [n \in 1..Len(cells(oi)) |-> a.data[cells(oi)[n]]]
    IN [shape |-> shape,
        data |-> [k \in 1..Size(shape) |->
                    NanMean(elements(Unravel(k - 1, shape)))]]

\* a ** 2. elementwise
SquareAll(a) ==
    [shape |-> a.shape,
     data |-> [k \in 1..Len(a.data) |-> Square(a.data[k])]]

\* np.abs(a) elementwise
AbsAll(a) ==
    [shape |-> a.shape, data |-> [k \in 1..Len(a.data) |-> Abs(a.data[k])]]

\* np.sqrt(a) of an array of means
SqrtAll(a) ==
    [shape |-> a.shape, data |-> [k \in 1..Len(a.data) |-> Sqrt(a.data[k])]]

Methods == {"mse", "mae", "rmse"}

\* np.nan_to_num(a): NaN counted as zero
ZeroNaN(a) ==
    [shape |-> a.shape,
     data |-> [k \in 1..Len(a.data) |->
                 IF IsNaN(a.data[k]) THEN 0 ELSE a.data[k]]]

\* The reduction with the NaN of mae counted as zero error.
ReduceMaeCountingNaN(method, diff, axis) ==
    IF method = "mse" THEN NanMeanAxes(SquareAll(diff), axis)
    ELSE IF method = "mae" THEN NanMeanAxes(AbsAll(ZeroNaN(diff)), axis)
    ELSE SqrtAll(NanMeanAxes(SquareAll(diff), axis))

\* The reduction each method makes of an array of differences.
Reduce(method, diff, axis) ==
    IF method = "mse" THEN NanMeanAxes(SquareAll(diff), axis)
    ELSE IF method = "mae" THEN NanMeanAxes(AbsAll(diff), axis)
    ELSE SqrtAll(NanMeanAxes(SquareAll(diff), axis))

RaisedError(kind) == [raised |-> kind, shape |-> <<>>, data |-> <<>>]

NoArray == [shape |-> <<>>, data |-> <<>>]

\* raise ValueError("'method' must be 'mse', 'rmse', or 'mae'")
MethodError == RaisedError("ValueError: 'method' must be 'mse', 'rmse', or 'mae'")

Returned(a) == [raised |-> "none", shape |-> a.shape, data |-> a.data]

\* One pass of a loop over f: the subtraction, then the reduction.
LoopStep(method, a, b, axis) ==
    IF ~Broadcastable(a.shape, b.shape) THEN RaisedError("ValueError")
    ELSE IF ~ValidAxis(axis, Rank(a)) THEN RaisedError("AxisError")
    ELSE Returned(Reduce(method, Subtract(a, b), axis))

\* np.array(me) of the passes steps[1..n], or the error of the first pass
\* that raised.  The passes reduce 1-d slices, so each appends one number.
StackSteps(steps) ==
    IF \E k \in 1..Len(steps) : steps[k].raised # "none"
    THEN RaisedError(steps[CHOOSE k \in 1..Len(steps) :
                        /\ steps[k].raised # "none"
                        /\ \A j \in 1..(k - 1) : steps[j].raised = "none"]
                     .raised)
    ELSE [raised |-> "none",
          shape |-> <<Len(steps)>>,
          data |-> [k \in 1..Len(steps) |-> steps[k].data[1]]]

\* tuple(range(len(valid.shape))): every axis, the forecast hour included
DefaultAxisFromZero(va) == Axis(0..(Rank(va) - 1))

\* tuple(range(1, len(valid.shape))): every axis but the forecast hour
DefaultAxis(va) == Axis(1..(Rank(va) - 1))

\* forecast_error reading forecast.shape[0] before it looks at method.
ForecastErrorShapeFirst(fc, va, method, axis) ==
    IF Rank(fc) = 0 THEN RaisedError("IndexError")
    ELSE IF method \notin Methods THEN MethodError
    ELSE LET n_f == fc.shape[1]
         IN IF Rank(fc) = Rank(va)
            THEN LET ax == IF axis.none THEN DefaultAxis(va) ELSE axis
                 IN LoopStep(method, va, fc, ax)
            ELSE IF Rank(va) = 0 THEN RaisedError("IndexError")
            ELSE LET n_val == va.shape[1]
                 IN StackSteps([k \in 1..n_f |->
                        LoopStep(method,
                                 SliceFrom(va, k - 1),
                                 SliceTo(Row(fc, k - 1), n_val - (k - 1)),
                                 axis)])

\* forecast_error for a forecast of rank 2 (forecast hour, initialization
\* time) and valid of rank 2 (the same axes) or rank 1 (time).
ForecastError(fc, va, method, axis) ==
    IF method \notin Methods THEN MethodError
    ELSE IF Rank(fc) = 0 THEN RaisedError("IndexError")
    ELSE LET n_f == fc.shape[1]
         IN IF Rank(fc) = Rank(va)
            THEN LET ax == IF axis.none THEN DefaultAxis(va) ELSE axis
                 IN LoopStep(method, va, fc, ax)
            ELSE IF Rank(va) = 0 THEN RaisedError("IndexError")
            ELSE LET n_val == va.shape[1]
                 IN StackSteps([k \in 1..n_f |->
                        LoopStep(method,
                                 SliceFrom(va, k - 1),
                                 SliceTo(Row(fc, k - 1), n_val - (k - 1)),
                                 axis)])

\* persistence_error with the shift reversed: valid[:n_f - f] against
\* predictors[f:].
PersistenceErrorReversed(pr, va, n_fh, method, axis) ==
    IF method \notin Methods THEN MethodError
    ELSE IF Rank(va) = 0 THEN RaisedError("IndexError")
    ELSE IF n_fh >= 1 /\ Rank(pr) = 0 THEN RaisedError("IndexError")
    ELSE LET n_f == va.shape[1]
         IN StackSteps([k \in 1..n_fh |->
                LoopStep(method,
                         SliceTo(va, n_f - (k - 1)),
                         SliceFrom(pr, k - 1),
                         axis)])

\* persistence_error with the loop over range(1, n_fhour + 1).
PersistenceErrorFromOne(pr, va, n_fh, method, axis) ==
    IF method \notin Methods THEN MethodError
    ELSE IF Rank(va) = 0 THEN RaisedError("IndexError")
    ELSE IF n_fh >= 1 /\ Rank(pr) = 0 THEN RaisedError("IndexError")
    ELSE LET n_f == va.shape[1]
         IN StackSteps([k \in 1..n_fh |->
                LoopStep(method,
                         SliceFrom(va, k),
                         SliceTo(pr, n_f - k),
                         axis)])

\* persistence_error for predictors and valid of rank 1
PersistenceError(pr, va, n_fh, method, axis) ==
    IF method \notin Methods THEN MethodError
    ELSE IF Rank(va) = 0 THEN RaisedError("IndexError")
    ELSE IF n_fh >= 1 /\ Rank(pr) = 0 THEN RaisedError("IndexError")
    ELSE LET n_f == va.shape[1]
         IN StackSteps([k \in 1..n_fh |->
                LoopStep(method,
                         SliceFrom(va, k - 1),
                         SliceTo(pr, n_f - (k - 1)),
                         axis)])

\* valid[:m] - np.nanmean(valid, axis=0) for valid of rank 1, every
\* difference multiplied by the count den of the climatological mean.
ClimoAnomaly(va, m) ==
    LET clim == NanMean(va.data)
        head == SliceTo(va, m)
    IN [shape |-> head.shape,
        data |-> [i \in 1..Len(head.data) |->
                    IF IsNaN(head.data[i]) \/ IsNaNMean(clim) THEN NaN
                    ELSE head.data[i] * clim.den - clim.num]]

\* The means of anomalies multiplied by scale (squared by mse and rmse), as
\* means of the anomalies themselves.
Unscale(method, a, scale) ==
    [shape |-> a.shape,
     data |-> [k \in 1..Len(a.data) |->
                 IF IsNaNMean(a.data[k]) THEN a.data[k]
                 ELSE [a.data[k] EXCEPT
                          !.den = IF method = "mae" THEN @ * scale
                                  ELSE @ * scale * scale]]]

\* climo_error for valid of rank 1
ClimoError(va, n_fh, method, axis) ==
    IF method \notin Methods THEN MethodError
    ELSE IF Rank(va) = 0 THEN RaisedError("IndexError")
    ELSE LET n_f == va.shape[1]
             scale == NanMean(va.data).den
             pass(f) ==
                 LET anomaly == ClimoAnomaly(va, n_f - f)
                 IN IF ~ValidAxis(axis, Rank(anomaly))
                    THEN RaisedError("AxisError")
                    ELSE Returned(Unscale(method,
                                          Reduce(method, anomaly, axis),
                                          scale))
         IN StackSteps([k \in 1..n_fh |-> pass(k - 1)])

(***************************************************************************)
(* monthly_climo_error.  One grid point; a time counts the months from a   *)
(* January, so the labels of a DataArray are one time per month and year.  *)
(***************************************************************************)
MonthsPerYear == 12

\* n_fhour=None; the model passes no negative n_fhour
NoneHours == -1

\* time.month
Month(t) == (t % MonthsPerYear) + 1

\* The values of d at the times of calendar month m, in the order of d.
ValuesOfMonth(d, m) ==
    LET idx == SortedSeq({i \in 1..Len(d.time) : Month(d.time[i]) = m})
    IN [k \in 1..Len(idx) |-> d.values[idx[k]]]

\* da.mean('time'): the mean over every time, whatever the month.
AllTimeClimo(d, m) == NanMean(d.values)

\* da.groupby('time.month').mean('time') at month m: the mean, NaN left
\* out, of da over every time of da in that calendar month.
MonthlyClimo(d, m) == NanMean(ValuesOfMonth(d, m))

\* The product of the counts of the monthly means of d over the months M.
RECURSIVE ClimoScale(_, _)
ClimoScale(d, M) ==
    IF M = {} THEN 1
    ELSE LET m == CHOOSE x \in M : TRUE
         IN Max(MonthlyClimo(d, m).den, 1) * ClimoScale(d, M \ {m})

\* da.sel(time=t) for a label t of da
SelTime(d, t) == d.values[CHOOSE i \in 1..Len(d.time) : d.time[i] = t]

\* da.sel(time=val_set).groupby('time.month') - monthly_climo, every
\* anomaly multiplied by scale, a multiple of the count of each climatology.
MonthlyAnomaly(d, vs, scale) ==
    [shape |-> <<Len(vs)>>,
     data |-> [k \in 1..Len(vs) |->
                 LET v == SelTime(d, vs[k])
                     clim == MonthlyClimo(d, Month(vs[k]))
                 IN IF IsNaN(v) \/ IsNaNMean(clim) THEN NaN
                    ELSE (v * clim.den - clim.num) * (scale \div clim.den)]]

\* np.array([me] * n_fhour), or me itself when n_fhour is None
RepeatHours(me, n_fh) ==
    IF n_fh = NoneHours
    THEN [raised |-> "none", shape |-> <<>>, data |-> <<me>>]
    ELSE [raised |-> "none", shape |-> <<n_fh>>,
          data |-> [k \in 1..n_fh |-> me]]

\* monthly_climo_error(da, val_set, n_fhour, method), return_da=False
MonthlyClimoError(d, vs, n_fh, method) ==
    IF method \notin Methods THEN MethodError
    ELSE IF d.time = <<>> THEN RaisedError("KeyError")
    ELSE IF \E k \in 1..Len(vs) : vs[k] \notin Range(d.time)
    THEN RaisedError("KeyError")
    ELSE LET scale == ClimoScale(d, {Month(vs[k]) : k \in 1..Len(vs)})
             anomaly == MonthlyAnomaly(d, vs, scale)
             me == Unscale(method, Reduce(method, anomaly, AxisNone), scale)
         IN RepeatHours(me.data[1], n_fh)

(***************************************************************************)
(* The scoring of examples/validate.py: labelled arrays with the           *)
(* dimensions f_hour and time, values[f][i] being the value at f_hour[f]   *)
(* and time[i].                                                            *)
(***************************************************************************)
RemoveAt(s, i) == SubSeq(s, 1, i - 1) \o SubSeq(s, i + 1, Len(s))

\* aux.sort() of a sequence, duplicates kept
RECURSIVE SortAscending(_)
SortAscending(s) ==
    IF s = <<>> THEN <<>>
    ELSE LET i == CHOOSE j \in 1..Len(s) : \A k \in 1..Len(s) : s[j] <= s[k]
         IN <<s[i]>> \o SortAscending(RemoveAt(s, i))

\* np.intersect1d(a, b, assume_unique=True): the concatenation sorted, then
\* every element that equals its successor.
Intersect1d(a, b) ==
    LET aux == SortAscending(a \o b)
        mask == SortedSeq({k \in 1..(Len(aux) - 1) : aux[k + 1] = aux[k]})
    IN [k \in 1..Len(mask) |-> aux[mask[k]]]

\* x.isel(time=range(len(labels))): the first times of x, by position.
IselTime(x, labels) ==
    [f_hour |-> x.f_hour,
     time |-> SubSeq(x.time, 1, Len(labels)),
     values |-> [f \in 1..Len(x.f_hour) |->
                   SubSeq(x.values[f], 1, Len(labels))]]

\* x.sel(time=labels) for labels of the (unique) time index of x
SelTimes(x, labels) ==
    [f_hour |-> x.f_hour,
     time |-> labels,
     values |-> [f \in 1..Len(x.f_hour) |->
                   [i \in 1..Len(labels) |->
                      x.values[f][CHOOSE j \in 1..Len(x.time) :
                                      x.time[j] = labels[i]]]]]

\* x.isel(f_hour=slice(0, n))
IselFHour(x, n) ==
    [f_hour |-> SubSeq(x.f_hour, 1, Min(n, Len(x.f_hour))),
     time |-> x.time,
     values |-> SubSeq(x.values, 1, Min(n, Len(x.f_hour)))]

\* x.values: the ndarray of a labelled array
ValuesOf(x) ==
    [shape |-> <<Len(x.f_hour), Len(x.time)>>,
     data |-> [k \in 1..(Len(x.f_hour) * Len(x.time)) |->
                 x.values[((k - 1) \div Len(x.time)) + 1]
                         [((k - 1) % Len(x.time)) + 1]]]

(***************************************************************************)
(* The rollout of the time series estimator, examples/validate.py 190-205. *)
(* A sample is [time, values], values giving every channel its value.  A   *)
(* value keeps its origin: an observation of the Sample Store, an output   *)
(* of the predictor, or NaN.                                               *)
(***************************************************************************)
Channels == 1..MaxChannel

\* The value the Sample Store holds for channel c at time t.
Observed(c, t) == 100 * c + t

\* The value the predictor gives channel c at lead step f of the forecast
\* initialized at t0.
ModelOutput(c, f, t0) == 1000 * f + 100 * c + t0

IsModelOutput(v) == v >= 1000

\* Lookup of the Sample Store that falls back on its latest time.
LookupLatest(c, t) ==
    IF t \in store THEN Observed(c, t)
    ELSE Observed(c, CHOOSE x \in store : \A y \in store : y <= x)

\* Exact-time lookup of the Sample Store: NaN for a time it does not hold.
Lookup(c, t) == IF t \in store THEN Observed(c, t) ELSE NaN

ObservedSample(t) == [time |-> t, values |-> [c \in Channels |-> Lookup(c, t)]]

PassThrough == Channels \ estimator.predicted

\* The predicted channels the caller keeps out of the next inputs.
Excluded == estimator.predicted \ estimator.outputs_in_inputs

\* The n latest times of T, ascending.
RECURSIVE MostRecent(_, _)
MostRecent(T, n) ==
    IF n = 0 \/ T = {} THEN <<>>
    ELSE LET m == CHOOSE x \in T : \A y \in T : y <= x
         IN Append(MostRecent(T \ {m}, n - 1), m)

\* The k most recent observed samples at or before t0.
InitialWindow(t0) ==
    LET times == MostRecent({t \in store : t <= t0}, estimator.k)
    IN [j \in 1..Len(times) |-> ObservedSample(times[j])]

\* The initialization times of the batch: the times of the store with a
\* full window at or before them.
InitTimes(T, k) == {t0 \in T : Cardinality({t \in T : t <= t0}) >= k}

\* The output sample of the predictor for the window of t0 at lead step f.
PredictOneStep(t0, f) ==
    [c \in estimator.predicted |-> ModelOutput(c, f, t0)]

\* The time of the output sample: the latest time of the window plus one
\* hour, whatever dt.
NewTimeNextHour(w, step) == w[Len(w)].time + 1

\* The time of the output sample: the latest time of the window plus dt.
NewTime(w, step) == w[Len(w)].time + step

\* A pass-through channel of the new sample carried forward from the
\* latest sample of the window.
CarriedForward(w, c, t) == w[Len(w)].values[c]

\* A pass-through channel of the new sample: the observation at the new
\* time.
Refreshed(w, c, t) == Lookup(c, t)

\* Every predicted channel fed back from the output.
FeedBackAll(w, c, out) == out[c]

\* A predicted channel of the new sample: the output, or for a channel kept
\* out of the inputs the value of the prior step.
FeedBack(w, c, out) ==
    IF c \in estimator.outputs_in_inputs THEN out[c]
    ELSE w[Len(w)].values[c]

\* The sample appended to the window.
Synthesize(w, out, t) ==
    [time |-> t,
     values |-> [c \in Channels |->
                   IF c \in estimator.predicted THEN FeedBack(w, c, out)
                   ELSE Refreshed(w, c, t)]]

\* Drop the oldest sample, append the new one.
Slide(w, sample) == Append(Tail(w), sample)

\* One call of the predictor: the lead step, the batch of initialization
\* times it is given, and the time of the output sample of each.
Invocation(f) ==
    [f |-> f,
     batch |-> DOMAIN window,
     time |-> [t0 \in DOMAIN window |-> NewTime(window[t0], estimator.dt)]]

\* The rollout ends after the first step.
IsFirstStep(f) == f = 1

\* The rollout ends after n_steps steps.
IsLastStep(f) == f = estimator.n_steps

\* estimator.predict(num_forecast_steps): the initial windows of the batch.
StartRollout ==
    /\ estimator.state = "idle"
    /\ \E n \in 1..MaxSteps :
         estimator' = [estimator EXCEPT !.state = "rolling", !.n_steps = n]
    /\ window' = [t0 \in InitTimes(store, estimator.k) |-> InitialWindow(t0)]
    /\ trajectory' = <<>>
    /\ lead' = 0
    /\ invoked' = <<>>
    /\ UNCHANGED <<utilVars, verifVars, errorVars, time_series, verification, store,
                   call, result>>

\* One lead step for the whole batch: the predictor is given the windows,
\* its output is recorded, and every window slides.
RolloutStep ==
    /\ estimator.state = "rolling"
    /\ lead < estimator.n_steps
    /\ LET f == lead + 1
           out == [t0 \in DOMAIN window |-> PredictOneStep(t0, f)]
       IN /\ invoked' = Append(invoked, Invocation(f))
          /\ trajectory' = Append(trajectory, out)
          /\ window' =
                [t0 \in DOMAIN window |->
                   Slide(window[t0],
                         Synthesize(window[t0], out[t0],
                                    NewTime(window[t0], estimator.dt)))]
          /\ lead' = f
          /\ estimator' =
                IF IsLastStep(f)
                THEN [estimator EXCEPT !.state = "done"]
                ELSE estimator
    /\ UNCHANGED <<utilVars, verifVars, errorVars, time_series, verification, store,
                   call, result>>

(***************************************************************************)
(* insolation, DLWP/util.py 305-352, in fixed point.  A real number is an  *)
(* integer count of 1/Unit, an angle a whole number of degrees, and every  *)
(* quotient is cut toward zero.  The elements of lat are counted in        *)
(* 1/Milli, so that degrees and radians of one array can be told apart.    *)
(* A date is [day, turn]: whole days since 1 January and the part of the   *)
(* day gone, in degrees of the earth's rotation.                           *)
(***************************************************************************)
Unit == 10000

Milli == 1000

Magnitude(x) == IF x < 0 THEN -x ELSE x

Sign(x) == IF x < 0 THEN -1 ELSE 1

\* a / b cut toward zero, b > 0
Quot(a, b) == Sign(a) * (Magnitude(a) \div b)

\* a / b to the nearest whole number, b > 0
RoundDiv(a, b) == Sign(a) * ((2 * Magnitude(a) + b) \div (2 * b))

\* Unit * sin of 0, 1, ..., 90 degrees
SinTable ==
    <<0, 174, 348, 523, 697, 871, 1045, 1218, 1391, 1564,
      1736, 1908, 2079, 2249, 2419, 2588, 2756, 2923, 3090, 3255,
      3420, 3583, 3746, 3907, 4067, 4226, 4383, 4539, 4694, 4848,
      5000, 5150, 5299, 5446, 5591, 5735, 5877, 6018, 6156, 6293,
      6427, 6560, 6691, 6819, 6946, 7071, 7193, 7313, 7431, 7547,
      7660, 7771, 7880, 7986, 8090, 8191, 8290, 8386, 8480, 8571,
      8660, 8746, 8829, 8910, 8987, 9063, 9135, 9205, 9271, 9335,
      9396, 9455, 9510, 9563, 9612, 9659, 9702, 9743, 9781, 9816,
      9848, 9876, 9902, 9925, 9945, 9961, 9975, 9986, 9993, 9998,
      10000>>

\* np.sin of an angle in degrees
Sin(d) ==
    LET a == d % 360
    IN IF a <= 90 THEN SinTable[a + 1]
       ELSE IF a <= 180 THEN SinTable[180 - a + 1]
       ELSE IF a <= 270 THEN -SinTable[a - 180 + 1]
       ELSE -SinTable[360 - a + 1]

\* np.cos of an angle in degrees
Cos(d) == Sin(d + 90)

\* np.arcsin: the angle of -90..90 degrees with the nearest sine
ArcSin(x) ==
    LET d == CHOOSE e \in (-90)..90 :
                 /\ Sin(e) <= x
                 /\ e < 90 => Sin(e + 1) > x
    IN IF d < 90 /\ Sin(d + 1) - x < x - Sin(d) THEN d + 1 ELSE d

\* x * np.pi / 180. of an element of lat
ToRadians(x) == RoundDiv(x * 1745, 100000)

\* The whole degrees of an angle given in radians.
DegreesOf(r) == RoundDiv(r * 57296, 1000000)

\* Constants for year 1995: np.sin(eps), ecc and 1 - ecc ** 2 in 1/Unit,
\* om in degrees.
SinEps == 3978

ecc == 167

OneMinusEccSquared == 9997

om == 283

\* lambda_m0 = ecc * (1. + beta) * np.sin(om), in degrees
lambda_m0 == -2

\* 2. * ecc radians, in 1/Unit of a degree
TwoEcc == 19154

\* The days that 2 * np.pi / 365. is multiplied by, in half days.
EquinoxHalfDays == 161

DaysPerYear == 365

\* day_of_year(date), in 1/360 of a day
day_of_year(date) == 360 * date.day + date.turn

\* Mean longitude of the earth on its orbit, in degrees.
lambda_m(days) ==
    lambda_m0 + RoundDiv(days - 180 * EquinoxHalfDays, DaysPerYear)

\* Longitude of the earth relative to the orbit, 1st order approximation
lambda_(days) ==
    lambda_m(days)
      + RoundDiv(Quot(TwoEcc * Sin(lambda_m(days) - om), Unit), Unit)

\* Solar declination, in degrees
dec(days) == ArcSin(Quot(SinEps * Sin(lambda_(days)), Unit))

\* Hour angle at longitude x, in degrees
HourAngle(days, x) == (days + x) % 360

\* rho ** -2., rho the distance (1 - ecc ** 2) / (1 + ecc * cos(lambda_ - om))
RhoInvSquared(days) ==
    LET inv == Quot((Unit + Quot(ecc * Cos(lambda_(days) - om), Unit)) * Unit,
                    OneMinusEccSquared)
    IN Quot(inv * inv, Unit)

\* rho ** -2. at the perihelion, lambda_ = om: 1 / (1 - ecc) ** 2
PerihelionFactor ==
    LET inv == Quot((Unit + ecc) * Unit, OneMinusEccSquared)
    IN Quot(inv * inv, Unit)

\* sol before the clamp, for a latitude r in radians and a longitude x
Sol(S, days, r, x) ==
    LET phi == DegreesOf(r)
        d == dec(days)
        cz == Quot(Sin(phi) * Sin(d), Unit)
                - Quot(Quot(Cos(phi) * Cos(d), Unit) * Cos(HourAngle(days, x)), Unit)
    IN S * Quot(cz * RhoInvSquared(days), Unit)

\* sol[sol < 0.] = 0. left out
Unclamped(v) == v

\* sol[sol < 0.] = 0.
Clamp(v) == IF v < 0 THEN 0 ELSE v

\* The element of a latitude or longitude array that the element (a, b) of
\* the grid reads: lat of rank 1 runs along the first axis of the mesh, lon
\* of rank 1 along the second, an array of rank 0 broadcasts.
GridElement(x, a, b, along_first) ==
    IF Rank(x) = 2 THEN x.data[(a - 1) * x.shape[2] + b]
    ELSE IF Rank(x) = 1 THEN x.data[IF along_first THEN a ELSE b]
    ELSE x.data[1]

\* The shape of the grid of one time.
GridShape(la, lo) ==
    IF Rank(la) = 2 THEN la.shape
    ELSE IF Rank(la) = 1 THEN <<la.shape[1], lo.shape[1]>>
    ELSE <<1, 1>>

\* lat *= np.pi / 180. on the array the name lat is bound to
InRadians(la) == [la EXCEPT !.data = [k \in DOMAIN la.data |-> ToRadians(la.data[k])]]

\* The caller's lat after the call: np.meshgrid has bound the name to a new
\* array for rank 1, otherwise the caller's array is the one converted.
LatAfter(la) == IF Rank(la) = 1 THEN la ELSE InRadians(la)

\* insolation(dates, lat, lon, S): what it raises or returns, and the
\* caller's lat afterwards.
Insolation(ds_, la, lo, S) ==
    IF Rank(la) # Rank(lo)
    THEN [raised |-> "ValueError: 'lat' and 'lon' must either both be 1d or both be 2d'",
          shape |-> <<>>, data |-> <<>>, lat |-> la]
    ELSE IF Rank(la) = 2 /\ la.shape # lo.shape
    THEN [raised |-> "ValueError: shape mismatch between lat and lon",
          shape |-> <<>>, data |-> <<>>, lat |-> la]
    ELSE IF la.dtype = "int64"
    THEN [raised |-> "UFuncTypeError", shape |-> <<>>, data |-> <<>>,
          lat |-> la]
    ELSE LET grid == GridShape(la, lo)
             shape == <<Len(ds_)>> \o grid
             rad == InRadians(la)
         IN [raised |-> "none",
             shape |-> shape,
             data |-> [k \in 1..Size(shape) |->
                         LET i == ((k - 1) \div Size(grid)) + 1
                             a == (((k - 1) % Size(grid)) \div grid[2]) + 1
                             b == ((k - 1) % grid[2]) + 1
                         IN Clamp(Sol(S, day_of_year(ds_[i]),
                                      GridElement(rad, a, b, TRUE),
                                      GridElement(lo, a, b, FALSE)))],
             lat |-> LatAfter(la)]

(***************************************************************************)
(* train_test_split_ind, DLWP/util.py 271-297.                             *)
(***************************************************************************)
\* list(range(a, b))
RangeList(a, b) == [k \in 1..(IF b > a THEN b - a ELSE 0) |-> a + k - 1]

\* train_set.remove(train_set[p]) forgotten
KeepAt(s, p) == s

\* train_set.remove(train_set[p])
DropAt(s, p) == RemoveAt(s, p)

\* The loop of method 'random': picks[j] is the position in train_set that
\* random.choice takes in round j.
RECURSIVE RandomRounds(_, _, _)
RandomRounds(train_set, test_set, picks) ==
    IF picks = <<>> THEN [train_set |-> train_set, test_set |-> test_set]
    ELSE LET i == train_set[Head(picks)]
         IN RandomRounds(DropAt(train_set, Head(picks)),
                         Append(test_set, i), Tail(picks))

SplitMethods == {"first", "last", "random"}

\* The picks that random.choice can make in the rounds of the loop; none if
\* train_set runs empty before the last round.
Picks(n, t) ==
    {p \in [1..t -> 1..Max(n, 1)] : \A j \in 1..t : p[j] <= n - j + 1}

\* train_test_split_ind(n_sample, test_size, method), random.choice making
\* the picks
TrainTestSplitInd(n, t, method, picks) ==
    IF method = "first"
    THEN [raised |-> "none", train_set |-> RangeList(t, n),
          test_set |-> RangeList(0, t)]
    ELSE IF method = "last"
    THEN [raised |-> "none", train_set |-> RangeList(0, n - t),
          test_set |-> RangeList(n - t, n)]
    ELSE IF method = "random"
    THEN IF t > n
         THEN [raised |-> "IndexError", train_set |-> <<>>, test_set |-> <<>>]
         ELSE LET r == RandomRounds(RangeList(0, n), <<>>, picks)
              IN [raised |-> "none", train_set |-> r.train_set,
                  test_set |-> SortAscending(r.test_set)]
    ELSE [raised |-> "ValueError: 'method' must be 'first', 'last', or 'random'",
          train_set |-> <<>>, test_set |-> <<>>]

(***************************************************************************)
(* delete_nan_samples, DLWP/util.py 238-268, large_fill_value False.  The  *)
(* arrays are reshaped to (num_samples, -1); a threshold is the fraction   *)
(* num / den.                                                              *)
(***************************************************************************)
\* threshold=None
NoneThreshold == [num |-> 0, den |-> 0]

\* The elements of sample i of a, i counted from 1.
SampleRow(a, i) ==
    LET width == Size(Tail(a.shape))
    IN [j \in 1..width |-> a.data[(i - 1) * width + j]]

\* The number of NaN in sample i: np.isnan(a)[i].sum()
NanCount(a, i) ==
    Cardinality({j \in 1..Size(Tail(a.shape)) : IsNaN(SampleRow(a, i)[j])})

\* The fraction c / width is larger than th.
ExceedsThreshold(c, width, th) == c * th.den > th.num * width

\* np.mean(np.isnan(a), axis=1) >= threshold for a sample with c NaN
ReachesThreshold(c, width, th) == c * th.den >= th.num * width

\* p_ind, t_ind as a set: the samples of a to delete
BadSamples(a, th) ==
    IF th = NoneThreshold
    THEN {i \in 1..a.shape[1] : NanCount(a, i) > 0}
    ELSE {i \in 1..a.shape[1] :
            ReachesThreshold(NanCount(a, i), Size(Tail(a.shape)), th)}

\* np.delete(a, bad_ind, axis=0), reshaped to the shape of a without them
DeleteSamples(a, bad) ==
    LET keep == SortedSeq((1..a.shape[1]) \ bad)
        width == Size(Tail(a.shape))
    IN [shape |-> <<Len(keep)>> \o Tail(a.shape),
        data |-> [k \in 1..(Len(keep) * width) |->
                    a.data[(keep[((k - 1) \div width) + 1] - 1) * width
                             + ((k - 1) % width) + 1]]]

DeleteNanSamples(pr, ta, th) ==
    IF th # NoneThreshold /\ ~(0 <= th.num /\ th.num <= th.den)
    THEN [raised |-> "ValueError: 'threshold' must be between 0 and 1",
          predictors |-> NoArray, targets |-> NoArray]
    ELSE LET bad_ind == BadSamples(pr, th) \cup BadSamples(ta, th)
         IN IF \E i \in bad_ind : i > pr.shape[1] \/ i > ta.shape[1]
            THEN [raised |-> "IndexError", predictors |-> NoArray,
                  targets |-> NoArray]
            ELSE [raised |-> "none",
                  predictors |-> DeleteSamples(pr, bad_ind),
                  targets |-> DeleteSamples(ta, bad_ind)]

(***************************************************************************)
(* EarlyStoppingMin, DLWP/custom.py 99-136, monitoring a loss: monitor_op  *)
(* is np.less and min_delta is held negated.  The weights of the model     *)
(* after epoch e are the number e + 1.                                     *)
(***************************************************************************)
\* np.Inf, the best value before any epoch, above every loss
Inf == MaxLoss + MaxDelta + 1

\* logs without the monitored value: get_monitor_value returns None
NoValue == -1

NoWeights == 0

WeightsAfter(epoch) == epoch + 1

\* The callback after __init__ and on_train_begin.
NewCallback(min_epochs, patience, min_delta, restore) ==
    [min_epochs |-> min_epochs, patience |-> patience,
     min_delta |-> -min_delta, restore_best_weights |-> restore,
     best |-> Inf, wait |-> 0, best_weights |-> NoWeights,
     stopped_epoch |-> 0]

\* No epoch is below min_epochs.
NeverBelowMinEpochs(cb, epoch) == FALSE

\* epoch < self.min_epochs
BelowMinEpochs(cb, epoch) == epoch < cb.min_epochs

\* self.monitor_op(current - self.min_delta, self.best)
Improves(cb, current) == current - cb.min_delta < cb.best

\* on_epoch_end(epoch, logs) on the callback cb and the model m, current
\* being the monitored value of logs: the callback and the model afterwards.
OnEpochEnd(cb, m, epoch, current) ==
    IF BelowMinEpochs(cb, epoch) THEN [early |-> cb, model |-> m]
    ELSE IF current = NoValue THEN [early |-> cb, model |-> m]
    ELSE IF Improves(cb, current)
    THEN [early |-> [cb EXCEPT !.best = current,
                               !.wait = 0,
                               !.best_weights =
                                  IF cb.restore_best_weights THEN m.weights
                                  ELSE cb.best_weights],
          model |-> m]
    ELSE IF cb.wait + 1 >= cb.patience
    THEN [early |-> [cb EXCEPT !.wait = cb.wait + 1,
                               !.stopped_epoch = epoch],
          model |-> [stop_training |-> TRUE,
                     weights |-> IF cb.restore_best_weights
                                 THEN cb.best_weights ELSE m.weights]]
    ELSE [early |-> [cb EXCEPT !.wait = cb.wait + 1], model |-> m]

(***************************************************************************)
(* predictors_to_time_series, DLWP/model/verify.py 135-169, meta_ds None.  *)
(***************************************************************************)
\* predictors.reshape((sample_dim, time_steps, -1)) of an array of shape
\* (sample_dim, features): the data stay in place.
ReshapeTimeSteps(pr, steps) ==
    [shape |-> <<pr.shape[1], steps, pr.shape[2] \div steps>>,
     data |-> pr.data]

\* idx = 0 if use_first_step else -1, as a position counted from 1
StepIndex(n_steps, first) == IF first THEN 1 ELSE n_steps

\* predictors[:, idx] of an array of shape (samples, steps, features)
TakeStep(pr, idx) ==
    [shape |-> <<pr.shape[1], pr.shape[3]>>,
     data |-> [k \in 1..(pr.shape[1] * pr.shape[3]) |->
                 LET i == (k - 1) \div pr.shape[3]
                     f == (k - 1) % pr.shape[3]
                 IN pr.data[i * pr.shape[2] * pr.shape[3]
                              + (idx - 1) * pr.shape[3] + f + 1]]]

PredictorsToTimeSeries(pr, steps, time_dim, first) ==
    IF time_dim
    THEN Returned(TakeStep(pr, StepIndex(pr.shape[2], first)))
    ELSE IF pr.shape[2] % steps # 0
    THEN RaisedError("ValueError")
    ELSE Returned(TakeStep(ReshapeTimeSteps(pr, steps),
                           StepIndex(steps, first)))

(***************************************************************************)
(* Calls.                                                                  *)
(***************************************************************************)

NoCall == [fn |-> "none", method |-> "", axis |-> AxisNone]

NoResult == [raised |-> "unset"]

NoDataArray == [time |-> <<>>, values |-> <<>>]

NoLabelled == [f_hour |-> <<>>, time |-> <<>>, values |-> <<>>]

NoEstimator ==
    [state |-> "none", k |-> 0, dt |-> 0, n_steps |-> 0,
     predicted |-> {}, outputs_in_inputs |-> {}]

NoInsolation ==
    /\ dates = <<>>
    /\ lat = NoArray
    /\ lon = NoArray
    /\ solar = 0
    /\ sols = <<>>

NoSplit == n_sample = 0 /\ test_size = 0

NoNanSamples == targets = NoArray /\ threshold = NoneThreshold

NoCallback == early = <<>> /\ model = <<>> /\ logs_seen = <<>>

NoSeries == time_steps = 0 /\ has_time_dim = TRUE /\ use_first_step = FALSE

\* The functions of util.py and custom.py are not called.
NoUtil == NoInsolation /\ NoSplit /\ NoNanSamples /\ NoCallback /\ NoSeries

NoRollout ==
    /\ store = {}
    /\ estimator = NoEstimator
    /\ window = <<>>
    /\ trajectory = <<>>
    /\ lead = 0
    /\ invoked = <<>>

\* The functions of verify.py are called outside the script.
NoScript ==
    /\ time_series = NoLabelled
    /\ verification = NoLabelled
    /\ NoRollout
    /\ NoUtil

\* The method strings a caller passes: the three the functions know, the
\* same in capitals, and the empty string.
MethodArgs == Methods \cup {"MSE", ""}

Hours == 0..MaxHour

InitVerification ==
    /\ ds \in {NoDataset} \cup {MakeDataset(S, 1) : S \in SUBSET Hours}
    /\ all_ds \in {NoDataset} \cup {MakeDataset(S, 2) : S \in SUBSET Hours}
    /\ forecast_steps \in (-1)..MaxSteps
    /\ dt \in (-1)..MaxDt
    /\ forecast = NoArray
    /\ valid = NoArray
    /\ predictors = NoArray
    /\ n_fhour = 0
    /\ da = NoDataArray
    /\ val_set = <<>>
    /\ NoScript
    /\ call = NoCall
    /\ result = NoResult

CallVerificationFromSeries ==
    /\ call.fn = "none"
    /\ call' = [NoCall EXCEPT !.fn = "verification_from_series"]
    /\ result' = VerificationFromSeries(ds, all_ds, forecast_steps, dt)
    /\ UNCHANGED <<utilVars, verifVars, errorVars, scriptVars>>

CallVerificationFromSamples ==
    /\ call.fn = "none"
    /\ call' = [NoCall EXCEPT !.fn = "verification_from_samples"]
    /\ result' = VerificationFromSamples(ds, all_ds, forecast_steps, dt)
    /\ UNCHANGED <<utilVars, verifVars, errorVars, scriptVars>>

NextVerification ==
    \/ CallVerificationFromSeries
    \/ CallVerificationFromSamples

SpecVerification == InitVerification /\ [][NextVerification]_vars

\* The ndarrays of a shape with elements of a set.
Arrays(shape, elements) ==
    {[shape |-> shape, data |-> d] : d \in [1..Size(shape) -> elements]}

Vals == (0..MaxVal) \cup {NaN}

\* The forecasts of nf forecast hours and nt initialization times.
Trajectories(nf, nt) == Arrays(<<nf, nt>>, Vals)

\* The plain series of n times.
Series(n) == Arrays(<<n>>, Vals)

\* Four forecast hours of one initialization time, scored against the
\* series of the five times t0..t0+4*dt, its four forecast hours, or its
\* first four times.
ScenarioForecast == [shape |-> <<4, 1>>, data |-> <<1, 2, 3, 4>>]

ScenarioValid == [shape |-> <<5, 1>>, data |-> <<1, 1, 3, 3, 5>>]

ScenarioValidLeads == [shape |-> <<4, 1>>, data |-> <<1, 3, 3, 5>>]

ScenarioValidHead == [shape |-> <<4, 1>>, data |-> <<1, 1, 3, 3>>]

InitForecastError ==
    /\ \/ /\ \E nf \in 1..MaxLead, nt \in 1..MaxTime :
                forecast \in Trajectories(nf, nt)
          /\ \/ \E nf \in 1..MaxLead, nt \in 1..MaxTime :
                   valid \in Trajectories(nf, nt)
             \/ \E n \in 1..MaxTime : valid \in Series(n)
       \/ /\ forecast = ScenarioForecast
          /\ valid \in {ScenarioValid, ScenarioValidLeads, ScenarioValidHead}
    /\ predictors = NoArray
    /\ n_fhour = 0
    /\ da = NoDataArray
    /\ val_set = <<>>
    /\ ds = NoDataset
    /\ all_ds = NoDataset
    /\ forecast_steps = 0
    /\ dt = 0
    /\ NoScript
    /\ call = NoCall
    /\ result = NoResult

AxisArgs == {AxisNone, Axis({0}), Axis({1}), Axis({0, 1})}

CallForecastError ==
    /\ call.fn = "none"
    /\ forecast # NoArray
    /\ \E method \in MethodArgs, axis \in AxisArgs :
         /\ call' = [fn |-> "forecast_error", method |-> method,
                     axis |-> axis]
         /\ result' = ForecastError(forecast, valid, method, axis)
    /\ UNCHANGED <<utilVars, verifVars, errorVars, scriptVars>>

SpecForecastError == InitForecastError /\ [][CallForecastError]_vars

Obs == (0..MaxObs) \cup {NaN}

InitBaseline ==
    /\ \E n \in 1..MaxLen :
         /\ predictors \in Arrays(<<n>>, Obs)
         /\ valid \in Arrays(<<n>>, Obs)
    /\ n_fhour \in 1..(MaxLen + 1)
    /\ forecast = NoArray
    /\ da = NoDataArray
    /\ val_set = <<>>
    /\ ds = NoDataset
    /\ all_ds = NoDataset
    /\ forecast_steps = 0
    /\ dt = 0
    /\ NoScript
    /\ call = NoCall
    /\ result = NoResult

CallPersistenceError ==
    /\ call.fn = "none"
    /\ predictors # NoArray
    /\ \E method \in MethodArgs :
         /\ call' = [fn |-> "persistence_error", method |-> method,
                     axis |-> AxisNone]
         /\ result' = PersistenceError(predictors, valid, n_fhour, method,
                                       AxisNone)
    /\ UNCHANGED <<utilVars, verifVars, errorVars, scriptVars>>

\* forecast_error(np.repeat(init[None, ...], n_fhour, axis=0), valid)
CallForecastErrorOfPersistence ==
    /\ call.fn = "none"
    /\ predictors # NoArray
    /\ \E method \in MethodArgs :
         /\ call' = [fn |-> "forecast_error", method |-> method,
                     axis |-> AxisNone]
         /\ result' = ForecastError(RepeatRows(predictors, n_fhour), valid,
                                    method, AxisNone)
    /\ UNCHANGED <<utilVars, verifVars, errorVars, scriptVars>>

CallClimoError ==
    /\ call.fn = "none"
    /\ predictors # NoArray
    /\ \E method \in MethodArgs :
         /\ call' = [fn |-> "climo_error", method |-> method,
                     axis |-> AxisNone]
         /\ result' = ClimoError(valid, n_fhour, method, AxisNone)
    /\ UNCHANGED <<utilVars, verifVars, errorVars, scriptVars>>

CallMonthlyClimoError ==
    /\ call.fn = "none"
    /\ da # NoDataArray
    /\ \E method \in MethodArgs :
         /\ call' = [fn |-> "monthly_climo_error", method |-> method,
                     axis |-> AxisNone]
         /\ result' = MonthlyClimoError(da, val_set, n_fhour, method)
    /\ UNCHANGED <<utilVars, verifVars, errorVars, scriptVars>>

\* The times of the model: month m of year y, counted in months.
ClimoTimes == {MonthsPerYear * y + m : y \in 0..MaxYear, m \in 0..MaxMonth}

\* The DataArrays with the time labels T, in ascending order.
DataArrays(T) ==
    {[time |-> SortedSeq(T), values |-> v] :
        v \in [1..Cardinality(T) -> Vals]}

InitMonthly ==
    /\ \E T \in (SUBSET ClimoTimes) \ {{}} : da \in DataArrays(T)
    /\ val_set \in {SortedSeq(V) : V \in (SUBSET ClimoTimes) \ {{}}}
    /\ n_fhour \in {NoneHours} \cup (0..MaxLead)
    /\ forecast = NoArray
    /\ valid = NoArray
    /\ predictors = NoArray
    /\ ds = NoDataset
    /\ all_ds = NoDataset
    /\ forecast_steps = 0
    /\ dt = 0
    /\ NoScript
    /\ call = NoCall
    /\ result = NoResult

SpecMonthly == InitMonthly /\ [][CallMonthlyClimoError]_vars

\* A 0-d array passed where the functions index the first axis.
ZeroDim == [shape |-> <<>>, data |-> <<NaN>>]

\* A DataArray with no time dimension.
ZeroDimDataArray == [time |-> <<>>, values |-> <<NaN>>]

\* Arguments of the four error functions, well-formed or not.
InitMethod ==
    /\ \/ forecast = ZeroDim
       \/ \E nf \in 1..MaxLead : forecast \in Trajectories(nf, 1)
    /\ \/ valid = ZeroDim
       \/ \E n \in 1..MaxTime : valid \in Series(n)
    /\ \/ predictors = ZeroDim
       \/ predictors \in Series(1)
    /\ n_fhour \in 1..MaxLead
    /\ da \in {ZeroDimDataArray} \cup DataArrays({0})
    /\ val_set \in {<<0>>, <<1>>}
    /\ ds = NoDataset
    /\ all_ds = NoDataset
    /\ forecast_steps = 0
    /\ dt = 0
    /\ NoScript
    /\ call = NoCall
    /\ result = NoResult

NextMethod ==
    \/ CallForecastError
    \/ CallPersistenceError
    \/ CallClimoError
    \/ CallMonthlyClimoError

SpecMethod == InitMethod /\ [][NextMethod]_vars

\* The value a labelled array holds for forecast hour h of the forecast
\* initialized at time t.
LabelTag(h, t) == 10 * h + t

Labelled(f_hour, time) ==
    [f_hour |-> f_hour,
     time |-> time,
     values |-> [f \in 1..Len(f_hour) |->
                   [i \in 1..Len(time) |-> LabelTag(f_hour[f], time[i])]]]

\* The time axes over the times S: no time twice, in any order.
TimeAxes(S) ==
    UNION {{t \in [1..Cardinality(T) -> T] :
              \A i, j \in 1..Cardinality(T) : t[i] = t[j] => i = j} :
           T \in SUBSET S}

\* A forecast of n lead steps and a verification of num_forecast_steps
\* >= n lead steps of dt hours, each on a time axis of its own.
InitScoring ==
    /\ \E step \in 1..MaxDt, steps \in 1..MaxSteps, n \in 1..MaxSteps :
         /\ n <= steps
         /\ \E ft \in TimeAxes(0..MaxTime), vt \in TimeAxes(0..MaxTime) :
              /\ time_series = Labelled(Arange(step, step * n + 1, step), ft)
              /\ verification =
                     Labelled(Arange(step, step * steps + 1, step), vt)
    /\ forecast = NoArray
    /\ valid = NoArray
    /\ predictors = NoArray
    /\ n_fhour = 0
    /\ da = NoDataArray
    /\ val_set = <<>>
    /\ ds = NoDataset
    /\ all_ds = NoDataset
    /\ forecast_steps = 0
    /\ dt = 0
    /\ NoRollout
    /\ NoUtil
    /\ call = NoCall
    /\ result = NoResult

\* validate.py 213-217: the error of the forecast against the verification
\* on the intersection of their time axes.
ScoreForecast ==
    /\ call.fn = "none"
    /\ time_series # NoLabelled
    /\ LET intersection == Intersect1d(time_series.time, verification.time)
           f == ValuesOf(SelTimes(time_series, intersection))
           v == ValuesOf(SelTimes(IselFHour(verification,
                                            Len(time_series.f_hour)),
                                  intersection))
       IN /\ forecast' = f
          /\ valid' = v
          /\ call' = [fn |-> "forecast_error", method |-> "rmse",
                      axis |-> AxisNone]
          /\ result' = ForecastError(f, v, "rmse", AxisNone)
    /\ UNCHANGED <<utilVars, verifVars, predictors, n_fhour, da, val_set, scriptVars>>

SpecScoring == InitScoring /\ [][ScoreForecast]_vars

\* A store of n samples dt hours apart and an estimator over it.
InitRollout ==
    /\ \E step \in 1..MaxDt, n \in 1..MaxSamples, k \in 1..MaxWindow :
         /\ k <= n
         /\ store = {step * i : i \in 0..(n - 1)}
         /\ \E P \in SUBSET Channels :
              /\ P # {}
              /\ \E O \in SUBSET P :
                   estimator = [state |-> "idle", k |-> k, dt |-> step,
                                n_steps |-> 0, predicted |-> P,
                                outputs_in_inputs |-> O]
    /\ window = <<>>
    /\ trajectory = <<>>
    /\ lead = 0
    /\ invoked = <<>>
    /\ NoUtil
    /\ time_series = NoLabelled
    /\ verification = NoLabelled
    /\ forecast = NoArray
    /\ valid = NoArray
    /\ predictors = NoArray
    /\ n_fhour = 0
    /\ da = NoDataArray
    /\ val_set = <<>>
    /\ ds = NoDataset
    /\ all_ds = NoDataset
    /\ forecast_steps = 0
    /\ dt = 0
    /\ call = NoCall
    /\ result = NoResult

NextRollout ==
    \/ StartRollout
    \/ RolloutStep

SpecRollout == InitRollout /\ [][NextRollout]_vars

\* predict runs its loop to the end: nothing else is scheduled.
FairSpecRollout == SpecRollout /\ WF_vars(RolloutStep)

\* The latitudes, in 1/Milli of a degree, and the longitudes, in degrees.
Latitudes == {-23 * Milli, 0, 90 * Milli}

Longitudes == {0, 180}

\* 3 January 12:00, 21 March 12:00 and 5 July 0:00
Dates ==
    {[day |-> 2, turn |-> 180], [day |-> 79, turn |-> 180],
     [day |-> 185, turn |-> 0]}

\* The arrays of rank 0, 1 and 2 with at most MaxGrid elements.
GridShapes ==
    {<<>>} \cup {<<m>> : m \in 1..MaxGrid}
      \cup {<<m, n>> : m, n \in 1..MaxGrid}

GridArrays(V) ==
    UNION {{[shape |-> sh, data |-> x] : x \in [1..Size(sh) -> V]} :
           sh \in {g \in GridShapes : Size(g) <= MaxGrid}}

InitInsolation ==
    /\ \E n \in 1..MaxDates : dates \in [1..n -> Dates]
    /\ \E la \in GridArrays(Latitudes), ty \in {"float64", "int64"} :
         lat = [shape |-> la.shape, data |-> la.data, dtype |-> ty]
    /\ lon \in GridArrays(Longitudes)
    /\ solar \in (-1)..MaxSolar
    /\ sols = <<>>
    /\ NoSplit
    /\ NoNanSamples
    /\ NoCallback
    /\ NoSeries
    /\ time_series = NoLabelled
    /\ verification = NoLabelled
    /\ NoRollout
    /\ forecast = NoArray
    /\ valid = NoArray
    /\ predictors = NoArray
    /\ n_fhour = 0
    /\ da = NoDataArray
    /\ val_set = <<>>
    /\ ds = NoDataset
    /\ all_ds = NoDataset
    /\ forecast_steps = 0
    /\ dt = 0
    /\ call = NoCall
    /\ result = NoResult

\* sol = insolation(dates, lat, lon, S) with the caller's arrays
CallInsolation ==
    /\ dates # <<>>
    /\ Len(sols) < MaxCalls
    /\ LET r == Insolation(dates, lat, lon, solar)
       IN /\ sols' = Append(sols, [raised |-> r.raised, shape |-> r.shape,
                                   data |-> r.data])
          /\ lat' = r.lat
    /\ UNCHANGED <<dates, lon, solar, splitVars, nanVars, callbackVars,
                   seriesVars,
                   verifVars, errorVars,
                   scriptVars, call, result>>

SpecInsolation == InitInsolation /\ [][CallInsolation]_vars

\* The arrays of n samples of the given width, of 0 and NaN.
SampleArrays(n, width) ==
    {[shape |-> <<n, width>>, data |-> x] : x \in [1..(n * width) -> {0, NaN}]}

\* None, 0, 1/2, 1 and the fractions -1 and 2 outside of [0, 1].
Thresholds ==
    {NoneThreshold} \cup {[num |-> x, den |-> 2] : x \in {-2, 0, 1, 2, 4}}

InitNanSamples ==
    /\ \E n \in 1..MaxRows, np \in 1..MaxWidth, nt \in 1..MaxWidth :
         /\ predictors \in SampleArrays(n, np)
         /\ targets \in SampleArrays(n, nt)
    /\ threshold \in Thresholds
    /\ NoInsolation
    /\ NoSplit
    /\ NoCallback
    /\ NoSeries
    /\ time_series = NoLabelled
    /\ verification = NoLabelled
    /\ NoRollout
    /\ forecast = NoArray
    /\ valid = NoArray
    /\ n_fhour = 0
    /\ da = NoDataArray
    /\ val_set = <<>>
    /\ ds = NoDataset
    /\ all_ds = NoDataset
    /\ forecast_steps = 0
    /\ dt = 0
    /\ call = NoCall
    /\ result = NoResult

CallDeleteNanSamples ==
    /\ call.fn = "none"
    /\ targets # NoArray
    /\ call' = [fn |-> "delete_nan_samples", method |-> "", axis |-> AxisNone]
    /\ result' = DeleteNanSamples(predictors, targets, threshold)
    /\ UNCHANGED <<utilVars, verifVars, errorVars, scriptVars>>

SpecNanSamples == InitNanSamples /\ [][CallDeleteNanSamples]_vars

InitCallback ==
    /\ \E min_epochs \in 0..MaxMinEpochs, patience \in 0..MaxPatience,
          min_delta \in 0..MaxDelta, restore \in BOOLEAN :
         early = NewCallback(min_epochs, patience, min_delta, restore)
    /\ model = [stop_training |-> FALSE, weights |-> NoWeights]
    /\ logs_seen = <<>>
    /\ NoSeries
    /\ NoInsolation
    /\ NoSplit
    /\ NoNanSamples
    /\ time_series = NoLabelled
    /\ verification = NoLabelled
    /\ NoRollout
    /\ forecast = NoArray
    /\ valid = NoArray
    /\ predictors = NoArray
    /\ n_fhour = 0
    /\ da = NoDataArray
    /\ val_set = <<>>
    /\ ds = NoDataset
    /\ all_ds = NoDataset
    /\ forecast_steps = 0
    /\ dt = 0
    /\ call = NoCall
    /\ result = NoResult

\* One epoch of fit: the model is trained, and on_epoch_end is called with
\* the number of the epoch and its logs, until stop_training or max_epochs.
TrainEpoch ==
    /\ early # <<>>
    /\ ~model.stop_training
    /\ Len(logs_seen) < MaxEpochs
    /\ \E current \in {NoValue} \cup 0..MaxLoss :
         LET epoch == Len(logs_seen)
             r == OnEpochEnd(early,
                             [model EXCEPT !.weights = WeightsAfter(epoch)],
                             epoch, current)
         IN /\ early' = r.early
            /\ model' = r.model
            /\ logs_seen' = Append(logs_seen, current)
    /\ UNCHANGED <<insolationVars, splitVars, nanVars, seriesVars, verifVars,
                   errorVars, scriptVars, call, result>>

SpecCallback == InitCallback /\ [][TrainEpoch]_vars

\* The value of feature f at time step t of sample i.
StepTag(i, t, f) == 100 * i + 10 * t + f

\* Predictor data of n samples of steps time steps of nf features, with
\* the time steps on an axis of their own or folded into the features.
WindowedPredictors(n, steps, nf, time_dim) ==
    [shape |-> IF time_dim THEN <<n, steps, nf>> ELSE <<n, steps * nf>>,
     data |-> [k \in 1..(n * steps * nf) |->
                 StepTag((k - 1) \div (steps * nf),
                         ((k - 1) % (steps * nf)) \div nf,
                         (k - 1) % nf)]]

InitSeries ==
    /\ time_steps \in 1..MaxTimeSteps
    /\ has_time_dim \in BOOLEAN
    /\ use_first_step \in BOOLEAN
    /\ \E n \in 1..MaxSeries, nf \in 1..MaxFeatures :
         predictors = WindowedPredictors(n, time_steps, nf, has_time_dim)
    /\ NoInsolation
    /\ NoSplit
    /\ NoNanSamples
    /\ early = <<>>
    /\ model = <<>>
    /\ logs_seen = <<>>
    /\ time_series = NoLabelled
    /\ verification = NoLabelled
    /\ NoRollout
    /\ forecast = NoArray
    /\ valid = NoArray
    /\ n_fhour = 0
    /\ da = NoDataArray
    /\ val_set = <<>>
    /\ ds = NoDataset
    /\ all_ds = NoDataset
    /\ forecast_steps = 0
    /\ dt = 0
    /\ call = NoCall
    /\ result = NoResult

CallPredictorsToTimeSeries ==
    /\ call.fn = "none"
    /\ time_steps >= 1
    /\ call' = [fn |-> "predictors_to_time_series", method |-> "",
                axis |-> AxisNone]
    /\ result' = PredictorsToTimeSeries(predictors, time_steps, has_time_dim,
                                        use_first_step)
    /\ UNCHANGED <<utilVars, verifVars, errorVars, scriptVars>>

SpecSeries == InitSeries /\ [][CallPredictorsToTimeSeries]_vars

InitSplit ==
    /\ n_sample \in 0..MaxSample
    /\ test_size \in 0..(n_sample + 1)
    /\ NoInsolation
    /\ NoNanSamples
    /\ NoCallback
    /\ NoSeries
    /\ time_series = NoLabelled
    /\ verification = NoLabelled
    /\ NoRollout
    /\ forecast = NoArray
    /\ valid = NoArray
    /\ predictors = NoArray
    /\ n_fhour = 0
    /\ da = NoDataArray
    /\ val_set = <<>>
    /\ ds = NoDataset
    /\ all_ds = NoDataset
    /\ forecast_steps = 0
    /\ dt = 0
    /\ call = NoCall
    /\ result = NoResult

CallTrainTestSplitInd ==
    /\ call.fn = "none"
    /\ \E method \in SplitMethods \cup {"Random", ""} :
         \E picks \in (IF method = "random" /\ test_size <= n_sample
                       THEN Picks(n_sample, test_size) ELSE {<<>>}) :
            /\ call' = [fn |-> "train_test_split_ind", method |-> method,
                        axis |-> AxisNone]
            /\ result' = TrainTestSplitInd(n_sample, test_size, method, picks)
    /\ UNCHANGED <<utilVars, verifVars, errorVars, scriptVars>>

SpecSplit == InitSplit /\ [][CallTrainTestSplitInd]_vars

NextBaseline ==
    \/ CallPersistenceError
    \/ CallForecastErrorOfPersistence
    \/ CallClimoError

SpecBaseline == InitBaseline /\ [][NextBaseline]_vars

(***************************************************************************)
(* The source store of a verification call and what the claims say of it.  *)
(***************************************************************************)
SourceStore == IF ~all_ds.none THEN 2 ELSE 1

SourceTimes == IF ~all_ds.none THEN Range(all_ds.sample) ELSE Range(ds.sample)

FirstTime(times) == CHOOSE t \in times : \A u \in times : t <= u

LastTime(times) == CHOOSE t \in times : \A u \in times : u <= t

\* times holds a sample at every step hours from its first to its last time
EveryDt(times, step) ==
    /\ times # {}
    /\ times = {t \in FirstTime(times)..LastTime(times) :
                    (t - FirstTime(times)) % step = 0}

\* t0 is a time of the store's grid whose whole forecast lies within it
WithinStore(t0, times, steps, step) ==
    /\ EveryDt(times, step)
    /\ t0 + step >= FirstTime(times)
    /\ (t0 + step - FirstTime(times)) % step = 0
    /\ t0 + steps * step <= LastTime(times)

\* The arguments verify.py documents: a Dataset and two integers >= 1.
ValidVerificationArgs == ~ds.none /\ forecast_steps >= 1 /\ dt >= 1

\* C1: verification_from_series, for a source (all_ds.predictors if all_ds is
\* given, else ds.predictors) holding a sample at every dt hours from T0 to
\* T1: for every t0 of ds.sample with t0 + forecast_steps*dt <= T1 and every
\* lead step f in 1..forecast_steps, the output at (f, t0) is the source
\* value stored at time t0 + f*dt.
C1_SeriesEqualsSource ==
    (call.fn = "verification_from_series" /\ ValidVerificationArgs)
    => /\ result.raised = "none"
       /\ \A d \in 1..Len(ds.sample) :
            WithinStore(ds.sample[d], SourceTimes, forecast_steps, dt)
            => \A f \in 1..forecast_steps :
                 result.values[f][d] =
                     PredictorAt(SourceStore, ds.sample[d] + f * dt)

C1_Witness ==
    /\ call.fn = "verification_from_series"
    /\ ~all_ds.none
    /\ forecast_steps = 2
    /\ dt = 2
    /\ result.raised = "none"
    /\ Len(ds.sample) >= 2
    /\ \E d \in 1..Len(ds.sample) :
         /\ WithinStore(ds.sample[d], SourceTimes, forecast_steps, dt)
         /\ ds.sample[d] + dt \notin Range(ds.sample)
         /\ result.values[2][d] = PredictorAt(2, ds.sample[d] + 4)

\* The time requested of the source for lead step f of initialization t0.
RequestedTime(fn, t0, f) ==
    IF fn = "verification_from_series" THEN t0 + f * dt
    ELSE t0 + (f - 1) * dt

StoredAt(fn, t) ==
    IF fn = "verification_from_series" THEN PredictorAt(SourceStore, t)
    ELSE TargetAt(SourceStore, t)

IsVerificationCall ==
    call.fn \in {"verification_from_series", "verification_from_samples"}

\* C2: verification_from_series and verification_from_samples return
\* normally; the entry at (f, t0) is NaN when the time requested for it is
\* no sample time of the source store, and the stored value otherwise, also
\* when every requested time of some t0 is absent.
C2_AbsentIsNaN ==
    (IsVerificationCall /\ ValidVerificationArgs)
    => /\ result.raised = "none"
       /\ \A d \in 1..Len(ds.sample) : \A f \in 1..forecast_steps :
            LET t == RequestedTime(call.fn, ds.sample[d], f)
            IN result.values[f][d] =
                   IF t \in SourceTimes THEN StoredAt(call.fn, t) ELSE NaN

C2_Witness ==
    /\ call.fn = "verification_from_samples"
    /\ ~all_ds.none
    /\ forecast_steps = 2
    /\ result.raised = "none"
    /\ \E d \in 1..Len(ds.sample) :
         \A f \in 1..forecast_steps : result.values[f][d] = NaN
    /\ \E d \in 1..Len(ds.sample) :
         /\ result.values[1][d] = NaN
         /\ result.values[2][d] = TargetAt(2, ds.sample[d] + dt)

(***************************************************************************)
(* What the claims say of the error metrics, computed from the arguments   *)
(* element by element.                                                     *)
(***************************************************************************)
\* Two means are the same number (or both NaN).
MeanEq(a, b) ==
    IF IsNaNMean(a) \/ IsNaNMean(b) THEN IsNaNMean(a) /\ IsNaNMean(b)
    ELSE IF a.root = b.root THEN a.num * b.den = b.num * a.den
    ELSE IF a.root
         THEN b.num >= 0 /\ a.num * b.den * b.den = b.num * b.num * a.den
         ELSE a.num >= 0 /\ b.num * a.den * a.den = a.num * a.num * b.den

\* a < b for two means that are numbers and no square roots
MeanLess(a, b) ==
    /\ ~IsNaNMean(a) /\ ~IsNaNMean(b)
    /\ a.num * b.den < b.num * a.den

RECURSIVE SumOver(_, _)
SumOver(d, I) ==
    IF I = {} THEN 0
    ELSE LET i == CHOOSE j \in I : TRUE
         IN d[i] + SumOver(d, I \ {i})

Defined(d) == {i \in DOMAIN d : d[i] # NaN}

\* The metric of the differences d[i], i in I, divided by their number.
MetricOver(method, d, I) ==
    [num |-> SumOver([i \in DOMAIN d |->
                        IF method = "mae"
                        THEN (IF d[i] < 0 THEN -d[i] ELSE d[i])
                        ELSE d[i] * d[i]], I),
     den |-> Cardinality(I),
     root |-> method = "rmse"]

\* The element (f, i) of a 2-d array, both from 0.
At2(a, f, i) == a.data[f * a.shape[2] + i + 1]

IsForecastErrorCall ==
    /\ call.fn = "forecast_error"
    /\ forecast # NoArray
    /\ call.method \in Methods

\* valid is a plain series and every initialization time has a forecast
SeriesCase ==
    /\ IsForecastErrorCall
    /\ Rank(valid) = 1
    /\ forecast.shape[2] = valid.shape[1]
    /\ forecast.shape[1] <= valid.shape[1]
    /\ call.axis = AxisNone

\* The differences of the k-th slice of forecast (k from 1) when the
\* forecast of initialization index i is paired with valid[i + shift].
ShiftedPairs(k, shift) ==
    [i \in 1..(valid.shape[1] - shift) |->
        Sub(valid.data[i + shift], At2(forecast, k - 1, i - 1))]

NoNaN(a) == \A k \in 1..Len(a.data) : a.data[k] # NaN

\* C3: forecast_error with a plain series valid of n_val times
\* and n_f <= n_val lead steps: at the f-th slice of forecast, f in 1..n_f,
\* the forecast of initialization index i is paired with valid[i + f - 1]
\* and the reduction runs over the n_val - f + 1 overlapping pairs.
C3_SeriesShift ==
    SeriesCase
    => /\ result.raised = "none"
       /\ result.shape = <<forecast.shape[1]>>
       /\ \A k \in 1..forecast.shape[1] :
            LET d == ShiftedPairs(k, k - 1)
            IN /\ Len(d) = valid.shape[1] - k + 1
               /\ MeanEq(result.data[k], MetricOver(call.method, d, Defined(d)))
               /\ result.data[k].den = Cardinality(Defined(d))

\* C3 in the words of the specification: the f-th slice is paired with valid[i + f] over n_val - f
\* pairs.
C3_ShiftByLeadStep ==
    SeriesCase
    => /\ result.raised = "none"
       /\ \A k \in 1..forecast.shape[1] :
            LET d == ShiftedPairs(k, k)
            IN /\ MeanEq(result.data[k], MetricOver(call.method, d, Defined(d)))
               /\ result.data[k].den = Cardinality(Defined(d))

C3_Witness ==
    /\ SeriesCase
    /\ forecast.shape = <<2, 2>>
    /\ NoNaN(forecast) /\ NoNaN(valid)
    /\ call.method = "mae"
    /\ result.raised = "none"
    /\ result.data[1].den = 2
    /\ result.data[2].den = 1
    /\ result.data[1].num = 2
    /\ result.data[2].num = 0

\* forecast and valid have one rank and one shape, axis at its default
SameShapeCase ==
    /\ IsForecastErrorCall
    /\ Rank(valid) = Rank(forecast)
    /\ valid.shape = forecast.shape
    /\ call.axis = AxisNone

\* The differences valid[f] - forecast[f] of lead step f (from 1).
LeadStepPairs(k) ==
    [i \in 1..forecast.shape[2] |->
        Sub(At2(valid, k - 1, i - 1), At2(forecast, k - 1, i - 1))]

\* C4: forecast_error with forecast and valid of the same rank and shape and
\* axis left at its default: entry f of the result is the reduction over all
\* elements of valid[f] - forecast[f], and of no other elements.
C4_SameRankPerLeadStep ==
    SameShapeCase
    => /\ result.raised = "none"
       /\ result.shape = <<forecast.shape[1]>>
       /\ \A k \in 1..forecast.shape[1] :
            LET d == LeadStepPairs(k)
            IN MeanEq(result.data[k], MetricOver(call.method, d, Defined(d)))

C4_Witness ==
    /\ SameShapeCase
    /\ forecast.shape = <<2, 2>>
    /\ NoNaN(forecast) /\ NoNaN(valid)
    /\ call.method = "mse"
    /\ result.raised = "none"
    /\ result.data[1] = [num |-> 2, den |-> 2, root |-> FALSE]
    /\ result.data[2] = [num |-> 0, den |-> 2, root |-> FALSE]

\* The differences reduced for lead step k of the call made, in either case.
ReducedPairs(k) ==
    IF Rank(valid) = 1 THEN ShiftedPairs(k, k - 1) ELSE LeadStepPairs(k)

\* The elements of valid and of forecast that lead step k reduces.
ReducedValid(k) ==
    [i \in DOMAIN ReducedPairs(k) |->
        IF Rank(valid) = 1 THEN valid.data[i + k - 1]
        ELSE At2(valid, k - 1, i - 1)]

ReducedForecast(k) ==
    [i \in DOMAIN ReducedPairs(k) |-> At2(forecast, k - 1, i - 1)]

\* Exactly one of the elements that lead step k reduces is NaN.
OneNaN(k) ==
    Cardinality(DOMAIN ReducedValid(k) \ Defined(ReducedValid(k)))
    + Cardinality(DOMAIN ReducedForecast(k) \ Defined(ReducedForecast(k)))
    = 1

\* C5: forecast_error, all three methods, both rank cases: when
\* exactly one of the n >= 2 elements reduced for a lead step is NaN, the
\* result of that lead step is the metric over the other n - 1 elements,
\* divided by n - 1, and is not NaN.
C5_OneNaNExcluded ==
    (SeriesCase \/ SameShapeCase)
    => /\ result.raised = "none"
       /\ \A k \in 1..forecast.shape[1] :
            LET d == ReducedPairs(k)
            IN (OneNaN(k) /\ Len(d) >= 2)
               => /\ MeanEq(result.data[k],
                            MetricOver(call.method, d, Defined(d)))
                  /\ result.data[k].den = Len(d) - 1
                  /\ ~IsNaNMean(result.data[k])

\* C5 in the words of the specification: for every n, n = 1 included.
C5_OneNaNNeverNaN ==
    (SeriesCase \/ SameShapeCase)
    => /\ result.raised = "none"
       /\ \A k \in 1..forecast.shape[1] :
            LET d == ReducedPairs(k)
            IN OneNaN(k)
               => /\ MeanEq(result.data[k],
                            MetricOver(call.method, d, Defined(d)))
                  /\ ~IsNaNMean(result.data[k])

C5_Witness ==
    /\ SameShapeCase
    /\ forecast.shape = <<2, 2>>
    /\ call.method = "rmse"
    /\ result.raised = "none"
    /\ OneNaN(1)
    /\ OneNaN(2)
    /\ IsNaN(At2(forecast, 0, 1))
    /\ IsNaN(At2(valid, 1, 0))
    /\ result.data[1] = [num |-> 1, den |-> 1, root |-> TRUE]
    /\ result.data[2].den = 1

IsScenarioCall ==
    /\ IsForecastErrorCall
    /\ call.method = "mae"
    /\ call.axis = AxisNone
    /\ forecast = ScenarioForecast

ScenarioErrors == <<0, 1, 0, 1>>

ReturnsScenarioErrors ==
    /\ result.raised = "none"
    /\ result.shape = <<4>>
    /\ \A k \in 1..4 :
         MeanEq(result.data[k],
                [num |-> ScenarioErrors[k], den |-> 1, root |-> FALSE])

\* C6: forecast_error with method='mae' on the forecast of
\* shape (4, 1) holding [1,2,3,4] fails on the valid array of shape (5, 1)
\* holding [1,1,3,3,5], whose five rows cannot be paired with four, and
\* returns [0, 1, 0, 1] on its four forecast hours [1,3,3,5], shape (4, 1).
C6_Scenario ==
    IsScenarioCall
    => /\ valid = ScenarioValid => result.raised = "ValueError"
       /\ valid = ScenarioValidLeads => ReturnsScenarioErrors

\* C6 in the words of the specification: the call on the valid array of shape (5, 1) returns
\* [0, 1, 0, 1].
C6_ScenarioAsClaimed ==
    (IsScenarioCall /\ valid = ScenarioValid) => ReturnsScenarioErrors

C6_Witness ==
    /\ IsScenarioCall
    /\ valid = ScenarioValidLeads
    /\ result.data = [k \in 1..4 |->
                        [num |-> ScenarioErrors[k], den |-> 1,
                         root |-> FALSE]]

(***************************************************************************)
(* The baselines.                                                          *)
(***************************************************************************)
IsBaselineCall ==
    /\ call.fn # "none"
    /\ predictors # NoArray
    /\ call.method \in Methods

Constant(a) == NoNaN(a) /\ \A k \in 1..Len(a.data) : a.data[k] = a.data[1]

Increasing(a) ==
    NoNaN(a) /\ \A k \in 1..(Len(a.data) - 1) : a.data[k] < a.data[k + 1]

\* persistence_error with method='mae' of a constant predictor against an
\* increasing ground truth, out to no more lead times than there are times
PersistenceOfConstant ==
    /\ IsBaselineCall
    /\ call.fn = "persistence_error"
    /\ call.method = "mae"
    /\ Constant(predictors)
    /\ Increasing(valid)
    /\ n_fhour <= valid.shape[1]

\* C7: for every constant predictor value v at or below the
\* first value of a monotonically increasing ground truth, the MAE of
\* persistence_error increases with the lead-time index over 0..n_fhour-1.
C7_PersistenceMaeIncreases ==
    (PersistenceOfConstant /\ predictors.data[1] <= valid.data[1])
    => /\ result.raised = "none"
       /\ \A k \in 1..(n_fhour - 1) :
            MeanLess(result.data[k], result.data[k + 1])

\* C7 in the words of the specification: for every constant v, also inside or above the range of
\* the truth, the MAE never decreases with the lead-time index.
C7_MaeIncreasesForEveryConstant ==
    PersistenceOfConstant
    => /\ result.raised = "none"
       /\ \A k \in 1..(n_fhour - 1) :
            ~MeanLess(result.data[k + 1], result.data[k])

C7_Witness ==
    /\ PersistenceOfConstant
    /\ predictors.data = <<0, 0, 0>>
    /\ valid.data = <<0, 1, 2>>
    /\ n_fhour = 3
    /\ result.raised = "none"
    /\ result.data = <<[num |-> 3, den |-> 3, root |-> FALSE],
                       [num |-> 3, den |-> 2, root |-> FALSE],
                       [num |-> 2, den |-> 1, root |-> FALSE]>>

\* The differences valid[i + j] - predictors[i], i in 0..n_f-j-1, of entry j.
PersistencePairs(j) ==
    [i \in 1..(valid.shape[1] - j) |->
        Sub(valid.data[i + j], predictors.data[i])]

\* C8: persistence_error(predictors, valid, n_fhour), for predictors and
\* valid of one length n_f and n_fhour <= n_f, returns n_fhour entries and
\* equals forecast_error of the forecast repeating predictors at each of the
\* n_fhour lead steps against the plain series valid: entry j reduces
\* valid[i + j] - predictors[i] over i in 0..n_f-j-1.
C8_PersistenceIsForecastErrorOfRepeat ==
    (IsBaselineCall /\ call.fn \in {"persistence_error", "forecast_error"}
        /\ predictors.shape = valid.shape /\ n_fhour <= valid.shape[1])
    => /\ result.raised = "none"
       /\ result.shape = <<n_fhour>>
       /\ result = PersistenceError(predictors, valid, n_fhour, call.method,
                                    call.axis)
       /\ result = ForecastError(RepeatRows(predictors, n_fhour), valid,
                                 call.method, call.axis)
       /\ \A j \in 0..(n_fhour - 1) :
            LET d == PersistencePairs(j)
            IN /\ Len(d) = valid.shape[1] - j
               /\ MeanEq(result.data[j + 1],
                         MetricOver(call.method, d, Defined(d)))

C8_Witness ==
    /\ IsBaselineCall
    /\ call.fn = "persistence_error"
    /\ call.method = "mse"
    /\ predictors.data = <<0, 1, 2>>
    /\ valid.data = <<1, 2, 0>>
    /\ n_fhour = 3
    /\ result.raised = "none"
    /\ result.data = <<[num |-> 6, den |-> 3, root |-> FALSE],
                       [num |-> 5, den |-> 2, root |-> FALSE],
                       [num |-> 0, den |-> 1, root |-> FALSE]>>

(***************************************************************************)
(* The three metrics together: the trajectories and the baselines.         *)
(***************************************************************************)
Init == InitForecastError \/ InitBaseline

Next ==
    \/ CallForecastError
    \/ CallPersistenceError
    \/ CallForecastErrorOfPersistence
    \/ CallClimoError

Spec == Init /\ [][Next]_vars

IsMetricCall ==
    call.fn \in {"forecast_error", "persistence_error", "climo_error"}

\* The call made, on the same arguments, with another method.
SameCallWith(method) ==
    IF call.fn = "persistence_error"
    THEN PersistenceError(predictors, valid, n_fhour, method, call.axis)
    ELSE IF call.fn = "climo_error"
    THEN ClimoError(valid, n_fhour, method, call.axis)
    ELSE IF predictors # NoArray
    THEN ForecastError(RepeatRows(predictors, n_fhour), valid, method,
                       call.axis)
    ELSE ForecastError(forecast, valid, method, call.axis)

OtherMethod(method) ==
    IF method = "rmse" THEN "mse" ELSE IF method = "mse" THEN "mae" ELSE "rmse"

\* The square of a mean that is a square root.
SquareOfRoot(m) == [m EXCEPT !.root = FALSE]

\* The differences np.nanmean reduces for entry k (from 1) of the result,
\* where the claims name them; those of climo_error are multiplied by the
\* number of observations that are not NaN.
HasNamedDifferences ==
    \/ SeriesCase
    \/ SameShapeCase
    \/ IsBaselineCall /\ n_fhour <= valid.shape[1]

ClimoPairs(j) ==
    [i \in 1..(valid.shape[1] - j) |->
        IF IsNaN(valid.data[i]) THEN NaN
        ELSE valid.data[i] * Cardinality(Defined(valid.data))
             - SumOver(valid.data, Defined(valid.data))]

NamedDifferences(k) ==
    IF ~IsBaselineCall THEN ReducedPairs(k)
    ELSE IF call.fn = "climo_error" THEN ClimoPairs(k - 1)
    ELSE PersistencePairs(k - 1)

\* The mean m of differences multiplied by a number, as their own mean.
NamedScale(m) ==
    IF call.fn # "climo_error" \/ IsNaNMean(m) THEN m
    ELSE LET c == Cardinality(Defined(valid.data))
         IN [m EXCEPT !.den = IF call.method = "mae" THEN @ * c ELSE @ * c * c]

\* C9: NaN is excluded in the same way by all three methods of
\* forecast_error, persistence_error and climo_error: on the same arguments
\* the methods reduce the same elements at each lead step, exactly those
\* whose difference is not NaN, the rmse result squared is the mse result,
\* and an entry is NaN only when no difference of its reduction is defined.
C9_SameExclusionForAllMethods ==
    (IsMetricCall /\ result.raised = "none")
    => /\ LET other == SameCallWith(OtherMethod(call.method))
          IN /\ other.raised = "none"
             /\ other.shape = result.shape
             /\ \A k \in 1..Len(result.data) :
                  /\ IsNaNMean(result.data[k]) <=> IsNaNMean(other.data[k])
                  /\ call.fn # "climo_error"
                     => result.data[k].den = other.data[k].den
                  /\ call.method = "rmse"
                     => MeanEq(SquareOfRoot(result.data[k]), other.data[k])
       /\ HasNamedDifferences
          => \A k \in 1..Len(result.data) :
               LET d == NamedDifferences(k)
               IN /\ IsNaNMean(result.data[k]) <=> Defined(d) = {}
                  /\ MeanEq(result.data[k],
                            NamedScale(MetricOver(call.method, d, Defined(d))))

C9_Witness ==
    /\ call.fn = "climo_error"
    /\ call.method = "rmse"
    /\ valid.data = <<2, NaN, 0>>
    /\ n_fhour = 2
    /\ result.raised = "none"
    /\ MeanEq(result.data[1], [num |-> 1, den |-> 1, root |-> TRUE])
    /\ MeanEq(SquareOfRoot(result.data[2]), [num |-> 1, den |-> 1, root |-> FALSE])

\* C10: for every value of the axis argument and in both rank cases, the
\* first dimension of the result of forecast_error is the forecast hour: the
\* result has forecast.shape[0] entries along its first axis.
C10_ForecastHourIsFirstDimension ==
    (IsForecastErrorCall /\ result.raised = "none")
    => /\ Len(result.shape) >= 1
       /\ result.shape[1] = forecast.shape[1]

(***************************************************************************)
(* The two builders on the same observations.  The target stored under    *)
(* sample time t is the observation of time t + dt, the predictor stored   *)
(* under t the observation of time t.                                      *)
(***************************************************************************)
\* The time whose observation a stored target, or predictor, is.
ObservedByTarget(x) ==
    IF IsNaN(x) THEN NaN ELSE ((x - TargetAt(0, 0)) % 100) + dt

ObservedByPredictor(x) ==
    IF IsNaN(x) THEN NaN ELSE (x - PredictorAt(0, 0)) % 100

\* The series store that holds, as predictors, the observations that the
\* sample store src holds as targets.
SameObservations(src) ==
    MakeDataset({src.sample[i] + dt : i \in 1..Len(src.sample)}, 2)

\* C13: verification_from_samples, when the target stored under sample
\* time t is the observation of time t + dt, returns what
\* verification_from_series returns on the same observations: the same
\* coordinates, and at (f, t0) the observation of time t0 + f*dt, NaN
\* where the observations hold no such time.
C13_SamplesAsSeries ==
    (call.fn = "verification_from_samples" /\ ValidVerificationArgs)
    => LET src == IF all_ds.none THEN ds ELSE all_ds
           series == VerificationFromSeries(ds, SameObservations(src),
                                            forecast_steps, dt)
       IN /\ result.raised = "none"
          /\ series.raised = "none"
          /\ result.f_hour = series.f_hour
          /\ result.time = series.time
          /\ \A f \in 1..forecast_steps : \A d \in 1..Len(ds.sample) :
                /\ ObservedByTarget(result.values[f][d])
                       = ObservedByPredictor(series.values[f][d])
                /\ ObservedByTarget(result.values[f][d])
                       \in {NaN, ds.sample[d] + f * dt}
                /\ IsNaN(result.values[f][d])
                       <=> (ds.sample[d] + f * dt - dt) \notin Range(src.sample)

C13_Witness ==
    /\ call.fn = "verification_from_samples"
    /\ ValidVerificationArgs
    /\ forecast_steps = 2
    /\ dt = 2
    /\ ~all_ds.none
    /\ \E d \in 1..Len(ds.sample) :
         /\ ObservedByTarget(result.values[1][d]) = ds.sample[d] + 2
         /\ ObservedByTarget(result.values[2][d]) = ds.sample[d] + 4
    /\ \E d \in 1..Len(ds.sample) : IsNaN(result.values[2][d])

\* The times the call made requests of the store for initialization t0.
RequestedTimes(t0) ==
    IF call.fn = "verification_from_series"
    THEN SeriesRequest(t0, forecast_steps, dt)
    ELSE SamplesRequest(t0, forecast_steps, dt)

\* C14: for dt >= 1 and forecast_steps >= 1 the f_hour coordinate of both
\* builders has forecast_steps entries, the f-th being f*dt hours, whatever
\* times were found in the store, and as many entries as times are
\* requested for each initialization time.
C14_LeadTimeCoordinate ==
    (IsVerificationCall /\ ValidVerificationArgs)
    => /\ result.raised = "none"
       /\ Len(result.f_hour) = forecast_steps
       /\ \A f \in 1..forecast_steps : result.f_hour[f] = f * dt
       /\ Len(result.values) = Len(result.f_hour)
       /\ \A d \in 1..Len(ds.sample) :
            Len(RequestedTimes(ds.sample[d])) = Len(result.f_hour)

C14_Witness ==
    /\ call.fn = "verification_from_series"
    /\ ValidVerificationArgs
    /\ all_ds.none
    /\ Len(ds.sample) = 1
    /\ result.f_hour = <<2, 4>>
    /\ result.values = <<<<NaN>>, <<NaN>>>>

(***************************************************************************)
(* Arguments that are refused.                                             *)
(***************************************************************************)
\* C12: verification_from_series and verification_from_samples raise the
\* ValueError of forecast_steps for every forecast_steps < 1 and that of dt
\* for every dt < 1, before the store is read (also when ds cannot be
\* read); for forecast_steps >= 1 and dt >= 1 neither error is raised.
C12_NonPositiveArgsRaise ==
    IsVerificationCall
    => /\ forecast_steps < 1 => result = StepsError
       /\ (forecast_steps >= 1 /\ dt < 1) => result = DtError
       /\ (forecast_steps >= 1 /\ dt >= 1)
          => /\ result.raised \notin {StepsError.raised, DtError.raised}
             /\ ds.none => result = NoStoreError

C12_Witness ==
    /\ call.fn = "verification_from_samples"
    /\ ds.none
    /\ forecast_steps = 1
    /\ dt = -1
    /\ result = DtError

IsErrorFunctionCall ==
    call.fn \in {"forecast_error", "persistence_error", "climo_error",
                 "monthly_climo_error"}

\* One of the data arguments of the call made is no array the function can
\* index.
MalformedData ==
    \/ call.fn = "forecast_error" /\ (forecast = ZeroDim \/ valid = ZeroDim)
    \/ call.fn = "persistence_error"
          /\ (predictors = ZeroDim \/ valid = ZeroDim)
    \/ call.fn = "climo_error" /\ valid = ZeroDim
    \/ call.fn = "monthly_climo_error"
          /\ (da = ZeroDimDataArray \/ val_set[1] \notin Range(da.time))

\* C11: forecast_error, persistence_error, climo_error and
\* monthly_climo_error raise the ValueError of the method for every method
\* string other than 'mse', 'mae', 'rmse', whatever the data arguments,
\* malformed ones included (which raise an error of their own only when
\* the method is valid); for the three valid strings that error is never
\* raised.
C11_UnknownMethodRaises ==
    IsErrorFunctionCall
    => /\ call.method \notin Methods => result = MethodError
       /\ call.method \in Methods => result.raised # MethodError.raised
       /\ (call.method \in Methods /\ MalformedData)
          => result.raised \in {"IndexError", "KeyError"}

C11_Witness ==
    /\ call.fn = "monthly_climo_error"
    /\ call.method = "MSE"
    /\ da = ZeroDimDataArray
    /\ forecast = ZeroDim
    /\ valid = ZeroDim
    /\ result = MethodError

(***************************************************************************)
(* The climatology baselines.                                              *)
(***************************************************************************)
\* C15: climo_error(valid, n_fhour) returns n_fhour entries; entry j, for
\* j in 0..n_fhour-1, is the reduction of valid[i] minus the mean of valid
\* over all its times, NaN left out, over i in 0..n_f-j-1 (over no element
\* once j reaches n_f).
C15_ClimoErrorOfAllTimeMean ==
    (IsBaselineCall /\ call.fn = "climo_error")
    => /\ result.raised = "none"
       /\ result.shape = <<n_fhour>>
       /\ \A j \in 0..(n_fhour - 1) :
            LET d == ClimoPairs(j)
            IN MeanEq(result.data[j + 1],
                      NamedScale(MetricOver(call.method, d, Defined(d))))

\* The times of da in calendar month m whose value is a number.
TimesOfMonth(m) ==
    {i \in 1..Len(da.time) : Month(da.time[i]) = m /\ da.values[i] # NaN}

RECURSIVE ProductOfCounts(_)
ProductOfCounts(M) ==
    IF M = {} THEN 1
    ELSE LET m == CHOOSE x \in M : TRUE
         IN Max(Cardinality(TimesOfMonth(m)), 1) * ProductOfCounts(M \ {m})

\* The product of the numbers of values that the monthly means of the
\* months of val_set are taken over.
AnomalyScale == ProductOfCounts({Month(val_set[k]) : k \in 1..Len(val_set)})

\* da at each time of val_set minus the mean of da over all times of da in
\* the same calendar month, multiplied by AnomalyScale.
ScaledAnomalies ==
    [k \in 1..Len(val_set) |->
        LET i == CHOOSE j \in 1..Len(da.time) : da.time[j] = val_set[k]
            T == TimesOfMonth(Month(val_set[k]))
        IN IF da.values[i] = NaN THEN NaN
           ELSE (da.values[i] * Cardinality(T) - SumOver(da.values, T))
                * (AnomalyScale \div Cardinality(T))]

\* The reduction of the anomalies of the val_set times.
MonthlyError ==
    LET m == MetricOver(call.method, ScaledAnomalies, Defined(ScaledAnomalies))
    IN IF IsNaNMean(m) THEN m
       ELSE [m EXCEPT !.den = IF call.method = "mae" THEN @ * AnomalyScale
                              ELSE @ * AnomalyScale * AnomalyScale]

IsMonthlyCall ==
    /\ call.fn = "monthly_climo_error"
    /\ call.method \in Methods
    /\ da.time # <<>>
    /\ Range(val_set) \subseteq Range(da.time)

\* C16: monthly_climo_error(da, val_set, n_fhour), for val_set times of da:
\* the anomaly of each time of val_set is da at that time minus the mean of
\* da over all times of da in the same calendar month; the error is the
\* reduction over the anomalies of the val_set times only; with an integer
\* n_fhour the result is an array of n_fhour identical values, with
\* n_fhour None a single number.
C16_MonthlyClimoError ==
    IsMonthlyCall
    => /\ result.raised = "none"
       /\ result.shape = IF n_fhour = NoneHours THEN <<>> ELSE <<n_fhour>>
       /\ Len(result.data) = IF n_fhour = NoneHours THEN 1 ELSE n_fhour
       /\ \A k \in 1..Len(result.data) :
            /\ result.data[k] = result.data[1]
            /\ MeanEq(result.data[k], MonthlyError)

C16_Witness ==
    /\ IsMonthlyCall
    /\ call.method = "mse"
    /\ da = [time |-> <<0, 1, MonthsPerYear>>, values |-> <<0, 1, 1>>]
    /\ val_set = <<0>>
    /\ n_fhour = 2
    /\ result.shape = <<2>>
    /\ MeanEq(result.data[2], [num |-> 1, den |-> 4, root |-> FALSE])

(***************************************************************************)
(* The arrays the script scores.                                           *)
(***************************************************************************)
\* The initialization times that both axes hold, in ascending order.
CommonTimes ==
    SortedSeq(Range(time_series.time) \cap Range(verification.time))

IsScored == call.fn = "forecast_error" /\ time_series # NoLabelled

\* C17: after the forecast and the verification are restricted to the
\* intersection of their time axes and the verification is cut to the
\* forecast's number of lead steps, the two arrays passed to forecast_error
\* have one shape, and the element (f, i) of each is the value of lead step
\* f of the forecast's f_hour axis and of the i-th common initialization
\* time, for any two time axes without duplicates, sorted or not.
C17_ScoredArraysAligned ==
    IsScored
    => /\ forecast.shape = valid.shape
       /\ forecast.shape = <<Len(time_series.f_hour), Len(CommonTimes)>>
       /\ \A f \in 1..Len(time_series.f_hour) :
            \A i \in 1..Len(CommonTimes) :
               /\ At2(forecast, f - 1, i - 1)
                     = LabelTag(time_series.f_hour[f], CommonTimes[i])
               /\ At2(valid, f - 1, i - 1)
                     = LabelTag(time_series.f_hour[f], CommonTimes[i])
       /\ result.raised = "none"

C17_Witness ==
    /\ IsScored
    /\ time_series.time = <<2, 0, 1>>
    /\ verification.time = <<1, 2>>
    /\ Len(time_series.f_hour) = 1
    /\ Len(verification.f_hour) = 2
    /\ forecast.shape = <<1, 2>>
    /\ forecast.data = valid.data
    /\ forecast.data = <<LabelTag(time_series.f_hour[1], 1),
                         LabelTag(time_series.f_hour[1], 2)>>

(***************************************************************************)
(* The rollout.                                                            *)
(***************************************************************************)
IsRolling == estimator.state \in {"rolling", "done"}

\* The samples of w are dt hours apart, at multiples of dt.
Consecutive(w) ==
    /\ \A j \in 1..Len(w) : w[j].time % estimator.dt = 0
    /\ \A j \in 1..(Len(w) - 1) : w[j + 1].time = w[j].time + estimator.dt

\* C18: at every lead step of a rollout and for every initialization time
\* of the batch, the input window has exactly k samples whose times are
\* consecutive multiples of dt, the latest of them lead steps after the
\* initialization time; sliding the window keeps this true from the
\* initial window onward.
C18_WindowInvariant ==
    IsRolling
    => \A t0 \in DOMAIN window :
          /\ Len(window[t0]) = estimator.k
          /\ Consecutive(window[t0])
          /\ window[t0][estimator.k].time = t0 + lead * estimator.dt

C18_Witness ==
    /\ estimator.state = "done"
    /\ estimator.k = 2
    /\ estimator.dt = 2
    /\ lead = 2
    /\ 2 \in DOMAIN window
    /\ window[2][1].time = 4
    /\ window[2][2].time = 6

\* The samples of the window of t0 appended by the rollout.
Appended(t0) == {j \in 1..Len(window[t0]) : window[t0][j].time > t0}

C20_ExclusionOverride ==
    [][lead' = lead + 1
       => \A t0 \in DOMAIN window :
             \A c \in estimator.predicted :
                LET prior == window[t0][estimator.k]
                    new == window'[t0][estimator.k]
                IN /\ trajectory'[lead'][t0][c] = ModelOutput(c, lead', t0)
                   /\ c \in Excluded
                      => /\ new.values[c] = prior.values[c]
                         /\ ~IsModelOutput(new.values[c])
                   /\ c \notin Excluded
                      => new.values[c] = trajectory'[lead'][t0][c]]_vars

C20_Witness ==
    /\ lead = 2
    /\ estimator.predicted = {1, 2}
    /\ estimator.outputs_in_inputs = {1}
    /\ estimator.k = 1
    /\ 0 \in DOMAIN window
    /\ trajectory[2][0][2] = ModelOutput(2, 2, 0)
    /\ window[0][1].values[2] = Observed(2, 0)
    /\ window[0][1].values[1] = ModelOutput(1, 2, 0)

\* The lead steps done whose new time the Sample Store does not hold.
MissingSteps(t0) == {f \in 1..lead : (t0 + f * estimator.dt) \notin store}

\* The samples of the window of t0 at time t.
SamplesAt(t0, t) == {j \in 1..Len(window[t0]) : window[t0][j].time = t}

\* C21: when the Sample Store does not hold the new time of lead step f,
\* the sample appended at that step holds NaN for every pass-through
\* channel, the rollout goes on, and the sample with its NaN stays in the
\* input window for the k following steps and is gone after them.
C21_MissingPassThroughIsNaN ==
    IsRolling
    => /\ \A t0 \in DOMAIN window :
            \A f \in MissingSteps(t0) :
               LET at == SamplesAt(t0, t0 + f * estimator.dt)
               IN IF lead - f < estimator.k
                  THEN /\ at # {}
                       /\ \A j \in at : \A c \in PassThrough :
                             window[t0][j].values[c] = NaN
                  ELSE at = {}
       /\ lead < estimator.n_steps => ENABLED RolloutStep

C21_Witness ==
    /\ lead = 2
    /\ estimator.k = 2
    /\ estimator.dt = 1
    /\ store = {0, 1, 2}
    /\ 3 \in PassThrough
    /\ 2 \in DOMAIN window
    /\ MissingSteps(2) = {1, 2}
    /\ window[2][1].time = 3
    /\ window[2][1].values[3] = NaN
    /\ window[2][2].values[3] = NaN

\* A sample with NaN that has left the window.
C21_WitnessLeft ==
    /\ lead = 2
    /\ estimator.k = 1
    /\ PassThrough # {}
    /\ \E t0 \in DOMAIN window :
          /\ 1 \in MissingSteps(t0)
          /\ SamplesAt(t0, t0 + estimator.dt) = {}

\* The calls of the predictor so far are one per lead step done, in the
\* order 1, 2, ..., each for the whole batch, and the Forecast Trajectory
\* holds one entry per call: the output for initialization time + f*dt.
OneCallPerStep ==
    /\ Len(invoked) = lead
    /\ Len(trajectory) = lead
    /\ lead <= estimator.n_steps
    /\ \A f \in 1..lead :
          /\ invoked[f].f = f
          /\ invoked[f].batch = InitTimes(store, estimator.k)
          /\ DOMAIN trajectory[f] = invoked[f].batch
          /\ \A t0 \in invoked[f].batch :
                /\ invoked[f].time[t0] = t0 + f * estimator.dt
                /\ \A c \in estimator.predicted :
                      trajectory[f][t0][c] = ModelOutput(c, f, t0)

HasTerminated == estimator.state = "done"

HasReturned(r) == r.raised = "none"

\* The date that the element k of a returned array belongs to.
DateOf(r, k) == dates[((k - 1) \div (r.shape[2] * r.shape[3])) + 1]

\* C23 in the words of the specification: every element of the output is
\* at least 0 and at most S, for every S.
C23_BoundedByS ==
    \A c \in 1..Len(sols) :
       HasReturned(sols[c])
       => \A k \in DOMAIN sols[c].data :
             /\ 0 <= sols[c].data[k]
             /\ sols[c].data[k] <= solar * Unit

\* C23: for all times, latitudes and longitudes and every scaling constant
\* S >= 0, every element of the output is at least 0 and at most S / rho^2,
\* rho the distance of the earth from the sun at that time in astronomical
\* units, which is S / (1 - ecc)^2 at most: above S around the perihelion.
C23_BoundedByDistance ==
    \A c \in 1..Len(sols) :
       HasReturned(sols[c]) /\ solar >= 0
       => \A k \in DOMAIN sols[c].data :
             /\ 0 <= sols[c].data[k]
             /\ sols[c].data[k]
                  <= solar * RhoInvSquared(day_of_year(DateOf(sols[c], k)))
             /\ sols[c].data[k] <= solar * PerihelionFactor

C23_Witness ==
    /\ Len(sols) = 1
    /\ HasReturned(sols[1])
    /\ solar = 1
    /\ dates = <<[day |-> 2, turn |-> 180], [day |-> 185, turn |-> 0]>>
    /\ lon = [shape |-> <<2>>, data |-> <<0, 180>>]
    /\ sols[1].shape = <<2, 1, 2>>
    /\ sols[1].data[1] > Unit
    /\ sols[1].data[2] = 0
    /\ sols[1].data[3] = 0
    /\ sols[1].data[4] > 0
    /\ sols[1].data[4] < Unit

IsInsolationCall == Len(sols') = Len(sols) + 1

\* C30: a call of insolation leaves the caller's dates, lat and lon as they
\* were, the latitudes still in degrees, for lat and lon of rank 1 and of
\* rank 2.
C30_ArgumentsUnchanged ==
    [][IsInsolationCall => dates' = dates /\ lat' = lat /\ lon' = lon]_vars

\* C24: successive calls of insolation with the same dates, lat, lon and S
\* objects return equal arrays, for lat and lon of rank 1 and of rank 2:
\* what a call returns does not depend on the calls before it.
C24_SameArgumentsSameResult ==
    \A c \in 2..Len(sols) : sols[c] = sols[1]

\* lat and lon are both of rank 1, or both of rank 2 with one shape.
ObeysShapeRule(la, lo) ==
    \/ Rank(la) = 1 /\ Rank(lo) = 1
    \/ Rank(la) = 2 /\ Rank(lo) = 2 /\ la.shape = lo.shape

\* C25: insolation fails with an error whenever lat and lon break the rule
\* 'both of rank 1, or both of rank 2 with equal shapes', before any value
\* is computed and before lat is converted; lat of length m and lon of
\* length n, both of rank 1, give an output of shape (number of dates, m, n).
C25_ShapeRule ==
    [][IsInsolationCall
       => LET r == sols'[Len(sols')]
          IN /\ ~ObeysShapeRule(lat, lon)
                => ~HasReturned(r) /\ r.data = <<>> /\ lat' = lat
             /\ Rank(lat) = 1 /\ Rank(lon) = 1 /\ HasReturned(r)
                => r.shape = <<Len(dates), lat.shape[1], lon.shape[1]>>]_vars

(***************************************************************************)
(* train_test_split_ind.                                                   *)
(***************************************************************************)
IsSplitCall == call.fn = "train_test_split_ind"

IsAscending(s) == \A j \in 1..(Len(s) - 1) : s[j] < s[j + 1]

NoIndexTwice(s) == \A i, j \in 1..Len(s) : s[i] = s[j] => i = j

\* C26: for every 0 <= test_size <= n_sample and each of 'first', 'last'
\* and 'random', the train and test lists are disjoint, hold together every
\* index 0..n_sample-1 exactly once, and the test list has test_size
\* indices; 'first' gives the test_size lowest indices, 'last' the highest,
\* 'random' a sorted test list; any other method raises an error.
C26_TrainTestSplit ==
    IsSplitCall
    => /\ call.method \notin SplitMethods => result.raised # "none"
       /\ call.method \in SplitMethods /\ test_size <= n_sample
          => /\ result.raised = "none"
             /\ Range(result.train_set) \cap Range(result.test_set) = {}
             /\ Range(result.train_set) \cup Range(result.test_set)
                  = 0..(n_sample - 1)
             /\ NoIndexTwice(result.train_set)
             /\ NoIndexTwice(result.test_set)
             /\ Len(result.test_set) = test_size
             /\ call.method = "first"
                => Range(result.test_set) = 0..(test_size - 1)
             /\ call.method = "last"
                => Range(result.test_set)
                     = (n_sample - test_size)..(n_sample - 1)
             /\ call.method = "random" => IsAscending(result.test_set)

C26_Witness ==
    /\ IsSplitCall
    /\ call.method = "random"
    /\ n_sample = 4
    /\ test_size = 2
    /\ result.test_set = <<1, 3>>
    /\ result.train_set = <<0, 2>>

(***************************************************************************)
(* delete_nan_samples.                                                     *)
(***************************************************************************)
IsDeleteCall == call.fn = "delete_nan_samples" /\ result.raised = "none"

\* The samples the docstring has removed from a.
ToRemove(a) ==
    IF threshold = NoneThreshold
    THEN {i \in 1..a.shape[1] : NanCount(a, i) > 0}
    ELSE {i \in 1..a.shape[1] :
            ExceedsThreshold(NanCount(a, i), Size(Tail(a.shape)), threshold)}

\* out holds the samples of a outside of removed, in their order.
HoldsTheOthers(out, a, removed) ==
    LET keep == SortedSeq((1..a.shape[1]) \ removed)
    IN /\ out.shape = <<Len(keep)>> \o Tail(a.shape)
       /\ \A k \in 1..Len(keep) : SampleRow(out, k) = SampleRow(a, keep[k])

\* C27: a sample is removed if and only if, with threshold None, its
\* predictors or its targets hold a NaN and, with a threshold in [0, 1], the
\* fraction of NaN in its predictors or in its targets is larger than the
\* threshold; the same samples are removed from both arrays, and the kept
\* samples keep their order and values.
C27_RemovedIffAboveThreshold ==
    IsDeleteCall
    => LET removed == ToRemove(predictors) \cup ToRemove(targets)
       IN /\ HoldsTheOthers(result.predictors, predictors, removed)
          /\ HoldsTheOthers(result.targets, targets, removed)
          /\ result.predictors.shape[1] = result.targets.shape[1]

(***************************************************************************)
(* EarlyStoppingMin.                                                       *)
(***************************************************************************)
IsTraining == early # <<>>

\* The best value and the count of consecutive non-improving epochs after
\* the epochs of logs, counted from epoch min_epochs on.
RECURSIVE Patience(_)
Patience(logs) ==
    IF Len(logs) <= early.min_epochs THEN [best |-> Inf, count |-> 0]
    ELSE LET before == Patience(SubSeq(logs, 1, Len(logs) - 1))
             current == logs[Len(logs)]
         IN IF current - early.min_delta < before.best
            THEN [best |-> current, count |-> 0]
            ELSE [best |-> before.best, count |-> before.count + 1]

\* The epochs, from min_epochs on, that do not improve and bring the count
\* to patience.
OutOfPatience ==
    {e \in early.min_epochs..(Len(logs_seen) - 1) :
       LET p == Patience(SubSeq(logs_seen, 1, e + 1))
       IN p.count >= 1 /\ p.count >= early.patience}

EveryValueLogged == \A e \in 1..Len(logs_seen) : logs_seen[e] # NoValue

\* C28: training is never stopped at an epoch below min_epochs, and the
\* calls below min_epochs leave best, wait, best_weights and stop_training
\* as they were; from epoch min_epochs on, training is stopped at the first
\* epoch at which the count of consecutive non-improving epochs, counted
\* from min_epochs on, reaches patience.
C28_EarlyStoppingMin ==
    IsTraining
    => /\ model.stop_training
          => /\ early.stopped_epoch >= early.min_epochs
             /\ early.stopped_epoch = Len(logs_seen) - 1
       /\ Len(logs_seen) <= early.min_epochs
          => /\ early.best = Inf
             /\ early.wait = 0
             /\ early.best_weights = NoWeights
             /\ ~model.stop_training
       /\ EveryValueLogged
          => /\ model.stop_training <=> OutOfPatience # {}
             /\ model.stop_training
                => \A e \in OutOfPatience : early.stopped_epoch <= e

C28_Witness ==
    /\ IsTraining
    /\ early.min_epochs = 2
    /\ early.patience = 2
    /\ early.min_delta = 0
    /\ logs_seen = <<2, 2, 1, 1, 2>>
    /\ model.stop_training
    /\ early.stopped_epoch = 4
    /\ early.best = 1
    /\ early.wait = 2

(***************************************************************************)
(* predictors_to_time_series.                                              *)
(***************************************************************************)
IsSeriesCall ==
    call.fn = "predictors_to_time_series" /\ result.raised = "none"

\* The number of samples given, and of features of a time step.
SamplesGiven == predictors.shape[1]

FeaturesGiven == Size(Tail(predictors.shape)) \div time_steps

\* The samples kept: all but the first time_steps - 1, or all but the last
\* time_steps - 1 when use_first_step, counted from 0.
Retained ==
    IF use_first_step THEN RangeList(0, SamplesGiven - (time_steps - 1))
    ELSE RangeList(time_steps - 1, SamplesGiven)

\* C29: the result keeps, for each retained sample, the last time step (the
\* first when use_first_step), and leaves out the first time_steps - 1
\* samples (the last time_steps - 1 when use_first_step): n samples give a
\* series of n - (time_steps - 1) entries.
C29_TruncatedSeries ==
    IsSeriesCall
    => /\ result.shape = <<Len(Retained), FeaturesGiven>>
       /\ \A j \in 1..Len(Retained) : \A f \in 1..FeaturesGiven :
             result.data[(j - 1) * FeaturesGiven + f]
               = StepTag(Retained[j],
                         IF use_first_step THEN 0 ELSE time_steps - 1, f - 1)

====
